---- MODULE Spec2Model ----
(***************************************************************************)
(* The ingestion engine of the lakehouse: the catalog upsert               *)
(* (etl_manager.update_catalog, uploader_app.update_catalog) and the five  *)
(* modality adapters (pipelines/*.process_minio_object) that run against   *)
(* one shared PostgreSQL database and one shared MinIO bucket.             *)
(*                                                                         *)
(* SpecCatalog: callers issue catalog upserts directly, in any order.      *)
(* Spec:        adapter invocations run concurrently, one I/O call a step. *)
(***************************************************************************)
EXTENDS Integers, Sequences, FiniteSets, TLC

\* ---------------------------------------------------------------- bounds
\* number of direct update_catalog calls in SpecCatalog
MaxCalls == 3
\* number of adapter invocations in Spec (they may all run at once)
MaxRuns == 2
\* tables extracted from one parsable document
MaxTables == 2
\* failures the environment injects in Spec: a failed object-store put, table
\* load or catalog upsert, an OCR engine error, a killed invocation
MaxFaults == 1

\* length of the strings the transforms are tried on in SpecTransform
MaxLen == 3
\* columns of the headers clean_dataframe is tried on in SpecTransform
MaxCols == 3
\* lines of the text samples detect_delimiter is tried on in SpecTransform
MaxLines == 2
\* cells of the columns infer_postgres_type is tried on in SpecTransform
MaxCells == 2
MaxJsonLines == 3

\* ------------------------------------------------------- values and paths
\* SQL NULL / Python None in an integer column
NULL == -1
\* SQL NULL in the content_hash column
NullHash == <<>>
\* LakehouseETL.bucket_name, uploader_app.BUCKET
BUCKET == "lakehouse-data"

Names == {"a", "b"}
Exts == {"csv", "json", "pdf", "docx", "doc", "pptx", "png", "txt"}
\* the bytes an object can hold: a well-formed file of its family, or bytes
\* its extractor cannot parse
Contents == {"doc", "junk"}
\* a tabular object can also hold a well-formed file without records
ContentsOf(ext) == IF ext \in {"csv", "json", "parquet"} THEN Contents \cup {"empty"} ELSE Contents
Workers == 1 .. MaxRuns

\* an object path: directory, final segment without extension, extension
RawPath(n, ext) == <<"raw", <<n>>, ext>>
RawPaths == {RawPath(n, e) : n \in Names, e \in Exts}

\* run_pipeline_for_object: the adapter the extension selects
AdapterOfDefaultingToCsv(ext) ==
    CASE ext \in {"csv", "json", "parquet"} -> "structured"
      [] ext = "pdf" -> "pdf"
      [] ext \in {"doc", "docx"} -> "docx"
      [] ext \in {"png", "jpg", "jpeg", "tiff"} -> "image"
      [] ext \in {"ppt", "pptx"} -> "pptx"
      [] OTHER -> "structured"
AdapterOf(ext) ==
    CASE ext \in {"csv", "json", "parquet"} -> "structured"
      [] ext = "pdf" -> "pdf"
      [] ext \in {"doc", "docx"} -> "docx"
      [] ext \in {"png", "jpg", "jpeg", "tiff"} -> "image"
      [] ext \in {"ppt", "pptx"} -> "pptx"
      [] OTHER -> "unsupported"

\* hashlib.sha256(data).hexdigest(): injective on the contents of the model
calculate_file_hash(data) == <<"sha256", data>>

\* what the external extractors return for the bytes
Parses(data) == data # "junk"
HasText(data) == Parses(data)
NumTables(data) == IF Parses(data) THEN MaxTables ELSE 0
TableRows(data, i) == i + 1
CsvSize(data, i) == 5 * TableRows(data, i)
NumImages(data) == IF Parses(data) THEN 1 ELSE 0
FileSize(data) == IF data = "junk" THEN 10 ELSE 20

\* object_name.split("/")[-1].rsplit(".", 1)[0]
FileRoot(p) == p[2][1]
\* processed/unstructured/text-extracted/<root>.txt
TextPath(p) == <<"processed/unstructured/text-extracted", <<FileRoot(p)>>, "txt">>
\* processed/structured/<kind>-tables/<root>_..table<i>.csv
TableKey(kind, p, i) ==
    <<"processed/structured/tables", <<FileRoot(p), kind, i>>, "csv">>
\* object_name.replace('raw/', 'processed/structured/').rsplit('.', 1)[0] + '.parquet'
ParquetName(p) == <<"processed/structured", p[2], "parquet">>
\* processed/unstructured/ppt-images/<root>/<image>
ImagePath(p, i) == <<"processed/unstructured/ppt-images", <<FileRoot(p), i>>, "bin">>
\* sanitize_table_name: 'data_' + the final segment without its extension
sanitize_table_name(p) == <<"data">> \o p[2]

\* ------------------------------------------------- text and identifiers
\* a str is a sequence of characters; a character is a one-letter string,
\* or one of the two named code points below
\* U+0130, LATIN CAPITAL LETTER I WITH DOT ABOVE
CapitalIDot == "U+0130"
\* U+0307, COMBINING DOT ABOVE: a mark, neither \w nor \s
CombiningDot == "U+0307"
Lowers == <<"a", "b", "c", "d", "e", "f", "g", "h", "i", "j", "k", "l", "m",
            "n", "o", "p", "q", "r", "s", "t", "u", "v", "w", "x", "y", "z">>
Uppers == <<"A", "B", "C", "D", "E", "F", "G", "H", "I", "J", "K", "L", "M",
            "N", "O", "P", "Q", "R", "S", "T", "U", "V", "W", "X", "Y", "Z">>
Digits == <<"0", "1", "2", "3", "4", "5", "6", "7", "8", "9">>
Range(f) == {f[i] : i \in DOMAIN f}
\* str.isdigit
IsDigit(c) == c \in Range(Digits)
\* the class \w of re on str patterns: alphanumeric or underscore
IsWord(c) == c \in Range(Lowers) \cup Range(Uppers) \cup Range(Digits) \cup {"_", CapitalIDot}
\* the class \s
IsSpace(c) == c \in {" ", "\t", "\n"}
\* str.lower of one character; U+0130 lowers to "i" followed by U+0307
LowerChar(c) ==
    IF c \in Range(Uppers)
    THEN <<Lowers[CHOOSE i \in DOMAIN Uppers : Uppers[i] = c]>>
    ELSE IF c = CapitalIDot THEN <<"i", CombiningDot>> ELSE <<c>>
RECURSIVE lower(_)
lower(s) == IF s = <<>> THEN <<>> ELSE LowerChar(Head(s)) \o lower(Tail(s))
\* str.lstrip / str.rstrip / str.strip over a set of characters
RECURSIVE lstrip(_, _)
lstrip(s, chars) ==
    IF s # <<>> /\ Head(s) \in chars THEN lstrip(Tail(s), chars) ELSE s
RECURSIVE rstrip(_, _)
rstrip(s, chars) ==
    IF s # <<>> /\ s[Len(s)] \in chars
    THEN rstrip(SubSeq(s, 1, Len(s) - 1), chars) ELSE s
strip(s, chars) == rstrip(lstrip(s, chars), chars)
Whitespace == {" ", "\t", "\n"}
\* re.sub(r'[^\w\s]', '_', col)
SubNonWordNonSpace(s) ==
    [i \in DOMAIN s |-> IF IsWord(s[i]) \/ IsSpace(s[i]) THEN s[i] ELSE "_"]
\* re.sub(r'[^\w]', '_', table_name)
SubNonWord(s) == [i \in DOMAIN s |-> IF IsWord(s[i]) THEN s[i] ELSE "_"]
\* re.sub(r'\s+', '_', col): each maximal run of whitespace becomes one "_"
RECURSIVE SubSpaceRuns(_)
SubSpaceRuns(s) ==
    IF s = <<>> THEN <<>>
    ELSE IF IsSpace(Head(s))
         THEN <<"_">> \o SubSpaceRuns(lstrip(s, Whitespace))
         ELSE <<Head(s)>> \o SubSpaceRuns(Tail(s))

\* sanitize_column_name(col)
sanitize_column_name(col) ==
    LET c1 == strip(col, Whitespace)
        c2 == SubNonWordNonSpace(c1)
        c3 == SubSpaceRuns(c2)
        c4 == strip(c3, {"_"})
        c5 == IF c4 # <<>> /\ IsDigit(c4[1]) THEN <<"c", "o", "l", "_">> \o c4 ELSE c4
        c6 == IF c5 = <<>>
              THEN <<"u", "n", "n", "a", "m", "e", "d", "_", "c", "o", "l", "u", "m", "n">>
              ELSE c5
    IN  lower(c6)

\* f"{dup}_{i}"
Suffixed(dup, i) == dup \o <<"_">> \o <<Digits[i + 1]>>
\* cols.duplicated(): the positions that repeat an earlier value
Duplicated(cols) == {i \in DOMAIN cols : \E j \in DOMAIN cols : j < i /\ cols[j] = cols[i]}
\* cols[cols.duplicated()].unique(): the repeated values, in order of appearance
RECURSIVE UniqueFrom(_, _, _)
UniqueFrom(cols, i, seen) ==
    IF i > Len(cols) THEN <<>>
    ELSE IF i \in Duplicated(cols) /\ cols[i] \notin seen
         THEN <<cols[i]>> \o UniqueFrom(cols, i + 1, seen \cup {cols[i]})
         ELSE UniqueFrom(cols, i + 1, seen)
\* cols[cols == dup] = [f"{dup}_{i}" if i != 0 else dup for i in range(sum(cols == dup))]
Renumbered(cols, dup) ==
    [i \in DOMAIN cols |->
        LET rank == Cardinality({j \in DOMAIN cols : j < i /\ cols[j] = dup})
        IN  IF cols[i] = dup /\ rank # 0 THEN Suffixed(dup, rank) ELSE cols[i]]
\* for dup in cols[cols.duplicated()].unique(): ...
RECURSIVE RenumberAll(_, _)
RenumberAll(cols, dups) ==
    IF dups = <<>> THEN cols
    ELSE RenumberAll(Renumbered(cols, Head(dups)), Tail(dups))
\* clean_dataframe: the column names it gives the table
CleanColumns(header) ==
    LET cols == [i \in DOMAIN header |-> sanitize_column_name(header[i])]
    IN  RenumberAll(cols, UniqueFrom(cols, 1, {}))

\* the part of s after the last occurrence of ch (all of s when there is none)
AfterLast(s, ch) ==
    IF \E i \in DOMAIN s : s[i] = ch
    THEN LET k == CHOOSE i \in DOMAIN s : s[i] = ch /\ \A j \in DOMAIN s : s[j] = ch => j <= i
         IN  SubSeq(s, k + 1, Len(s))
    ELSE s
\* s.rsplit(ch, 1)[0]: the part of s before the last occurrence of ch
BeforeLast(s, ch) ==
    IF \E i \in DOMAIN s : s[i] = ch
    THEN LET k == CHOOSE i \in DOMAIN s : s[i] = ch /\ \A j \in DOMAIN s : s[j] = ch => j <= i
         IN  SubSeq(s, 1, k - 1)
    ELSE s
\* the identifier length limit of sanitize_table_name
MaxIdentifier == 63
\* sanitize_table_name(object_name) on the characters of the path
sanitize_table_name_str(object_name) ==
    LET filename == AfterLast(object_name, "/")
        t1 == BeforeLast(filename, ".")
        t2 == SubNonWord(t1)
        t3 == lower(strip(t2, {"_"}))
        t4 == <<"d", "a", "t", "a", "_">> \o t3
    IN  IF Len(t4) > MaxIdentifier THEN SubSeq(t4, 1, MaxIdentifier) ELSE t4

\* ------------------------------------------------------ detect_delimiter
\* the candidates of the fallback, in the order the dict is walked
Delimiters == <<",", ";", "\t", "|", ":">>
\* the sample is held as its lines, sample.split('\n'); the first ten count
SampledLines(lines) == SubSeq(lines, 1, IF Len(lines) < 10 THEN Len(lines) ELSE 10)
\* if line.strip()
NonBlank(lines) == SelectSeq(lines, LAMBDA l : strip(l, Whitespace) # <<>>)
\* line.count(delim)
Count(line, delim) == Cardinality({i \in DOMAIN line : line[i] = delim})
\* delimiter_counts[delim]
DelimiterCounts(lines, delim) ==
    [i \in DOMAIN NonBlank(SampledLines(lines)) |->
        Count(NonBlank(SampledLines(lines))[i], delim)]
RECURSIVE SumSeq(_)
SumSeq(q) == IF q = <<>> THEN 0 ELSE Head(q) + SumSeq(Tail(q))
\* score = avg_count / (1 + variance), as the fraction ScoreNum / ScoreDen:
\* with n counts of sum S and sum of squares Q, avg = S/n and
\* variance = Q/n - S^2/n^2, so score = S*n / (n^2 + n*Q - S^2)
ScoreNum(counts) == SumSeq(counts) * Len(counts)
ScoreDen(counts) ==
    Len(counts) * Len(counts)
        + Len(counts) * SumSeq([i \in DOMAIN counts |-> counts[i] * counts[i]])
        - SumSeq(counts) * SumSeq(counts)
\* if not counts or all(c == 0 for c in counts): continue
Skipped(counts) == counts = <<>> \/ \A i \in DOMAIN counts : counts[i] = 0
\* if score >= best_score
ScoreBeatsOrTies(num, den, bestNum, bestDen) == num * bestDen >= bestNum * den
\* if score > best_score
ScoreBeats(num, den, bestNum, bestDen) == num * bestDen > bestNum * den
\* the loop over delimiter_counts.items(), from candidate i on
RECURSIVE BestFrom(_, _, _, _, _)
BestFrom(lines, i, best, bestNum, bestDen) ==
    IF i > Len(Delimiters) THEN best
    ELSE LET counts == DelimiterCounts(lines, Delimiters[i])
         IN  IF ~Skipped(counts)
                /\ ScoreBeats(ScoreNum(counts), ScoreDen(counts), bestNum, bestDen)
             THEN BestFrom(lines, i + 1, Delimiters[i], ScoreNum(counts), ScoreDen(counts))
             ELSE BestFrom(lines, i + 1, best, bestNum, bestDen)
\* detect_delimiter: what csv.Sniffer().sniff answered ("error" when it
\* raised), else the fallback with best_delimiter = ',' and best_score = 0
detect_delimiter(lines, sniffed) ==
    IF sniffed # "error" THEN sniffed ELSE BestFrom(lines, 1, ",", 0, 1)

\* --------------------------------------------------- infer_postgres_type
\* a cell of a pandas Series: None/NaN, a str, a dict or list, or a number
\* of a numeric dtype (held as its decimal literal)
NullCell == [t |-> "null", v |-> <<>>]
NestedCell == [t |-> "nested", v |-> <<>>]
StrCell(chars) == [t |-> "str", v |-> chars]
NumCell(chars) == [t |-> "num", v |-> chars]
\* series.dropna()
DropNa(series) == SelectSeq(series, LAMBDA c : c.t # "null")
\* sample.head(n)
HeadN(q, n) == SubSeq(q, 1, IF Len(q) < n THEN Len(q) ELSE n)
\* sample.dtype == 'object': the column holds str or nested cells
IsObjectDtype(sample) == \E i \in DOMAIN sample : sample[i].t \in {"str", "nested"}
\* isinstance(v, str) and (v.strip().startswith('{') or v.strip().startswith('['))
LooksLikeJson(c) ==
    /\ c.t = "str"
    /\ strip(c.v, Whitespace) # <<>>
    /\ Head(strip(c.v, Whitespace)) \in {"{", "["}
\* json_like >= len(sample_vals) * 0.8 over sample.head(5)
JsonLike(sample) ==
    /\ IsObjectDtype(sample)
    /\ 5 * Cardinality({i \in DOMAIN HeadN(sample, 5) : LooksLikeJson(HeadN(sample, 5)[i])})
          >= 4 * Len(HeadN(sample, 5))

\* a decimal literal [+-]digits[.digits] read by pd.to_numeric: its sign,
\* the digits of its integer part and the digits of its fraction
ParseNumber(chars) ==
    LET neg == chars # <<>> /\ Head(chars) = "-"
        body == IF chars # <<>> /\ Head(chars) \in {"+", "-"} THEN Tail(chars) ELSE chars
        dots == {i \in DOMAIN body : body[i] = "."}
    IN  [ok |-> /\ \A i \in DOMAIN body : IsDigit(body[i]) \/ body[i] = "."
                /\ Cardinality(dots) <= 1
                /\ \E i \in DOMAIN body : IsDigit(body[i]),
         neg |-> neg,
         int |-> lstrip(BeforeLast(body, "."), {"0"}),
         frac |-> IF dots = {} THEN <<>> ELSE rstrip(AfterLast(body, "."), {"0"})]
\* the digit a character stands for
DigitVal(c) == CHOOSE d \in 0 .. 9 : Digits[d + 1] = c
\* a <= b for two digit strings without leading zeros
RECURSIVE LexLE(_, _)
LexLE(a, b) ==
    IF a = <<>> THEN TRUE
    ELSE IF DigitVal(Head(a)) # DigitVal(Head(b))
         THEN DigitVal(Head(a)) < DigitVal(Head(b))
         ELSE LexLE(Tail(a), Tail(b))
MagLE(a, b) == Len(a) < Len(b) \/ (Len(a) = Len(b) /\ LexLE(a, b))
\* 2147483647, 2147483648, 9223372036854775807 and 9223372036854775808,
\* 18446744073709551615 (the largest uint64) and 9223372036854775295 (the
\* largest integer a float64 does not round up to 2^63)
Int32Max == <<"2", "1", "4", "7", "4", "8", "3", "6", "4", "7">>
Int32MinMag == <<"2", "1", "4", "7", "4", "8", "3", "6", "4", "8">>
Int64Max == <<"9", "2", "2", "3", "3", "7", "2", "0", "3", "6",
              "8", "5", "4", "7", "7", "5", "8", "0", "7">>
Int64MinMag == <<"9", "2", "2", "3", "3", "7", "2", "0", "3", "6",
                 "8", "5", "4", "7", "7", "5", "8", "0", "8">>
UInt64Max == <<"1", "8", "4", "4", "6", "7", "4", "4", "0", "7",
               "3", "7", "0", "9", "5", "5", "1", "6", "1", "5">>
Int64FloatEdge == <<"9", "2", "2", "3", "3", "7", "2", "0", "3", "6",
                    "8", "5", "4", "7", "7", "5", "2", "9", "5">>
\* the literal is written without a decimal point
IsIntegerLiteral(c) == \A i \in DOMAIN c.v : c.v[i] # "."
\* pd.to_numeric(sample, errors='raise') returns: every cell is a number or
\* a str that reads as one, and no integer literal lies outside
\* -2^63 .. 2^64-1 ("Integer out of range.")
ToNumericSucceeds(sample) ==
    \A i \in DOMAIN sample :
        /\ sample[i].t \in {"str", "num"}
        /\ ParseNumber(sample[i].v).ok
        /\ IsIntegerLiteral(sample[i]) =>
              IF ParseNumber(sample[i].v).neg
              THEN MagLE(ParseNumber(sample[i].v).int, Int64MinMag)
              ELSE MagLE(ParseNumber(sample[i].v).int, UInt64Max)
\* the cell is above 9223372036854775807
AboveInt64(c) == ~ParseNumber(c.v).neg /\ ~MagLE(ParseNumber(c.v).int, Int64Max)
\* numeric_series has dtype float64: a literal with a decimal point, or
\* integers above the int64 range next to negative ones (otherwise the
\* dtype is int64, or uint64 when an integer is above the int64 range)
IsFloatDtype(sample) ==
    \/ \E i \in DOMAIN sample : ~IsIntegerLiteral(sample[i])
    \/ /\ \E i \in DOMAIN sample : AboveInt64(sample[i])
       /\ \E i \in DOMAIN sample : ParseNumber(sample[i].v).neg
\* what a cast float64 -> int64 of a value >= 2^63 produces is undefined:
\* the smallest int64 on some builds, the largest on others
Casts == {"wraps", "saturates"}
\* one cell of numeric_series == numeric_series.astype(int): the value has
\* no fraction, and the cast gives the value back. A uint64 above the
\* int64 range wraps to a negative number; a float64 that is 2^63 or more
\* compares equal only to the saturated cast
EqualsItsInt(c, sample, cast) ==
    LET n == ParseNumber(c.v) IN
    /\ n.frac = <<>>
    /\ IF IsFloatDtype(sample)
       THEN (~n.neg /\ ~MagLE(n.int, Int64FloatEdge)) => cast = "saturates"
       ELSE ~AboveInt64(c)
AllIntegralNever(sample, cast) == FALSE
AllIntegral(sample, cast) == \A i \in DOMAIN sample : EqualsItsInt(sample[i], sample, cast)
\* min_val >= -2147483648 and max_val <= 2147483647
InInt32RangeOffByOne(sample) ==
    \A i \in DOMAIN sample :
        MagLE(ParseNumber(sample[i].v).int, Int32MinMag)
InInt32Range(sample) ==
    \A i \in DOMAIN sample :
        LET n == ParseNumber(sample[i].v) IN
        IF n.neg THEN MagLE(n.int, Int32MinMag) ELSE MagLE(n.int, Int32Max)
\* a str pd.to_datetime reads: an ISO calendar date, dddd-dd-dd
IsIsoDate(chars) ==
    /\ Len(chars) = 10
    /\ \A i \in {1, 2, 3, 4, 6, 7, 9, 10} : IsDigit(chars[i])
    /\ chars[5] = "-" /\ chars[8] = "-"
\* pd.to_datetime(sample.head(10), errors='raise') returns
ToDatetimeSucceeds(sample) ==
    \A i \in DOMAIN HeadN(sample, 10) :
        HeadN(sample, 10)[i].t = "str" /\ IsIsoDate(HeadN(sample, 10)[i].v)
\* bool_values
BoolValues == {<<"t", "r", "u", "e">>, <<"f", "a", "l", "s", "e">>, <<"1">>, <<"0">>,
               <<"y", "e", "s">>, <<"n", "o">>, <<"t">>, <<"f">>}
\* sample.unique(): the distinct cells in order of appearance
RECURSIVE Unique(_, _)
Unique(sample, seen) ==
    IF sample = <<>> THEN <<>>
    ELSE IF Head(sample) \in seen THEN Unique(Tail(sample), seen)
         ELSE <<Head(sample)>> \o Unique(Tail(sample), seen \cup {Head(sample)})
\* set(str(v).lower() for v in sample.unique()[:10])
UniqueLower(sample) == {lower(c.v) : c \in Range(HeadN(Unique(sample, {}), 10))}
\* the boolean rule; sample.unique() raises on a dict or list
BoolLike(sample) ==
    /\ \A i \in DOMAIN sample : sample[i].t # "nested"
    /\ UniqueLower(sample) \subseteq BoolValues
    /\ Cardinality(UniqueLower(sample)) <= 2
\* infer_postgres_type with the boolean rule tried before the numeric one
infer_postgres_type_bool_first(series, cast) ==
    LET sample == DropNa(series) IN
    IF sample = <<>> THEN "TEXT"
    ELSE IF sample[1].t = "nested" THEN "JSONB"
    ELSE IF JsonLike(sample) THEN "JSONB"
    ELSE IF BoolLike(sample) THEN "BOOLEAN"
    ELSE IF ToNumericSucceeds(sample)
         THEN IF AllIntegral(sample, cast)
              THEN IF InInt32Range(sample) THEN "INTEGER" ELSE "BIGINT"
              ELSE "NUMERIC"
    ELSE IF ToDatetimeSucceeds(sample) THEN "TIMESTAMP"
    ELSE "TEXT"
\* infer_postgres_type(series), cast being what the build makes of an
\* overflowing float64 -> int64 cast
infer_postgres_type(series, cast) ==
    LET sample == DropNa(series) IN
    IF sample = <<>> THEN "TEXT"
    ELSE IF sample[1].t = "nested" THEN "JSONB"
    ELSE IF JsonLike(sample) THEN "JSONB"
    ELSE IF ToNumericSucceeds(sample)
         THEN IF AllIntegral(sample, cast)
              THEN IF InInt32Range(sample) THEN "INTEGER" ELSE "BIGINT"
              ELSE "NUMERIC"
    ELSE IF ToDatetimeSucceeds(sample) THEN "TIMESTAMP"
    ELSE IF BoolLike(sample) THEN "BOOLEAN"
    ELSE "TEXT"

\* -------------------------------------------------------- detect_encoding
\* chardet's confidence in hundredths; confidence < 0.7 is low
ConfidenceThreshold == 70
\* result.get('encoding') when chardet recognises nothing
NoEncoding == "None"
\* detect_encoding, from chardet's answer
detect_encoding(encoding, confidence) ==
    IF confidence < ConfidenceThreshold
    THEN <<"utf-8", "latin-1", "iso-8859-1", "cp1252">>
    ELSE IF encoding # NoEncoding THEN <<encoding>> ELSE <<"utf-8">>
\* the codec a name stands for: iso-8859-1 is an alias of latin-1
Codec(encoding) == IF encoding = "iso-8859-1" THEN "latin-1" ELSE encoding
\* the first of the three read attempts that returned a non-empty frame, or 0
FirstNonEmpty(attempts) ==
    IF \E k \in DOMAIN attempts : attempts[k] = "rows"
    THEN CHOOSE k \in DOMAIN attempts :
            attempts[k] = "rows" /\ \A j \in 1 .. k - 1 : attempts[j] # "rows"
    ELSE 0
\* the loops of read_csv_file: outcome[codec] is <<>> when data.decode
\* raises, else what each of the three pd.read_csv attempts gave ("error",
\* "empty" or "rows"); the first non-empty frame is returned, and the read
\* raises ValueError when there is none
RECURSIVE TryEncodings(_, _, _)
TryEncodings(encodings, outcome, i) ==
    IF i > Len(encodings) THEN [ok |-> FALSE, encoding |-> NoEncoding, attempt |-> 0]
    ELSE IF FirstNonEmpty(outcome[Codec(encodings[i])]) # 0
         THEN [ok |-> TRUE, encoding |-> encodings[i],
               attempt |-> FirstNonEmpty(outcome[Codec(encodings[i])])]
         ELSE TryEncodings(encodings, outcome, i + 1)

\* ---------------------------------------------------------- read_json_file
\* the JSON texts of the model: two objects, an array of both, a number
ObjectA == <<"{", "\"", "a", "\"", ":", "1", "}">>
ObjectB == <<"{", "\"", "a", "\"", ":", "2", "}">>
ArrayAB == <<"[", "{", "\"", "a", "\"", ":", "1", "}", ",", "{", "\"", "a", "\"", ":", "2", "}", "]">>
\* json.loads of a text without line breaks: whether it parses, the type of
\* the value, and the records json_normalize sees in it (a value stands as
\* its text)
json_loads(chars) ==
    LET t == strip(chars, Whitespace) IN
    IF t \in {ObjectA, ObjectB} THEN [ok |-> TRUE, type |-> "dict", items |-> <<t>>]
    ELSE IF t = ArrayAB THEN [ok |-> TRUE, type |-> "list", items |-> <<ObjectA, ObjectB>>]
    ELSE IF t = <<"1">> THEN [ok |-> TRUE, type |-> "int", items |-> <<t>>]
    ELSE [ok |-> FALSE, type |-> "none", items |-> <<>>]
\* json.loads(text) of the whole text, held as its lines: it parses when one
\* line holds a value and the others are blank
json_loads_text(lines) ==
    IF Len(NonBlank(lines)) = 1 THEN json_loads(NonBlank(lines)[1])
    ELSE [ok |-> FALSE, type |-> "none", items |-> <<>>]
\* records: json.loads of every non-blank line, a line that raises
\* JSONDecodeError being skipped
RECURSIVE Records(_)
Records(lines) ==
    IF lines = <<>> THEN <<>>
    ELSE IF strip(Head(lines), Whitespace) # <<>> /\ json_loads(Head(lines)).ok
         THEN <<json_loads(Head(lines))>> \o Records(Tail(lines))
         ELSE Records(Tail(lines))
\* what pd.json_normalize makes of records that are not all objects depends
\* on the pandas installed: one row per record, or an exception
Normalizations == {"rows", "raises"}
ReadFailed == [ok |-> FALSE, rows |-> <<>>]
\* read_json_file without the line-by-line fallback
read_json_file_whole_only(lines, normalize) ==
    LET whole == json_loads_text(lines)
    IN  IF whole.ok /\ whole.type \in {"dict", "list"}
        THEN [ok |-> TRUE, rows |-> whole.items]
        ELSE ReadFailed
\* read_json_file on a text every encoding decodes alike: the rows of the
\* frame it returns, or the ValueError after the last encoding
read_json_file(lines, normalize) ==
    LET whole == json_loads_text(lines)
        records == Records(lines)
    IN  IF whole.ok
        THEN IF whole.type \in {"dict", "list"}
             THEN [ok |-> TRUE, rows |-> whole.items]
             ELSE ReadFailed
        ELSE IF records = <<>> THEN ReadFailed
        ELSE IF normalize = "rows" \/ \A i \in DOMAIN records : records[i].type = "dict"
             THEN [ok |-> TRUE, rows |-> [i \in DOMAIN records |-> records[i].items[1]]]
             ELSE ReadFailed

\* ------------------------------------------------------- detect_file_type
\* the characters of the extensions the model names
ExtText == [ext \in {"csv", "tsv", "txt", "json", "parquet", "pq", "pdf", "dat"} |->
               CASE ext = "csv" -> <<"c", "s", "v">>
                 [] ext = "tsv" -> <<"t", "s", "v">>
                 [] ext = "txt" -> <<"t", "x", "t">>
                 [] ext = "json" -> <<"j", "s", "o", "n">>
                 [] ext = "parquet" -> <<"p", "a", "r", "q", "u", "e", "t">>
                 [] ext = "pq" -> <<"p", "q">>
                 [] ext = "pdf" -> <<"p", "d", "f">>
                 [] ext = "dat" -> <<"d", "a", "t">>]
\* detect_file_type(object_name, data): the type, and whether the extension
\* decided it; jsonPrefix says whether json.loads of data[:1000] returns
detect_file_type(object_name, jsonPrefix) ==
    LET ext == IF "." \in Range(object_name) THEN AfterLast(lower(object_name), ".") ELSE <<>>
    IN  IF ext \in {ExtText["csv"], ExtText["tsv"], ExtText["txt"]}
        THEN [type |-> "csv", byExtension |-> TRUE]
        ELSE IF ext = ExtText["json"] THEN [type |-> "json", byExtension |-> TRUE]
        ELSE IF ext \in {ExtText["parquet"], ExtText["pq"]}
             THEN [type |-> "parquet", byExtension |-> TRUE]
        ELSE IF jsonPrefix THEN [type |-> "json", byExtension |-> FALSE]
        ELSE [type |-> "csv", byExtension |-> FALSE]
\* run_pipeline_for_object: ext = object_name.rsplit('.', 1)[-1].lower(), as
\* the name AdapterOf knows it by
DispatchedExt(object_name) ==
    LET ext == lower(AfterLast(object_name, "."))
    IN  IF \E e \in DOMAIN ExtText : ExtText[e] = ext
        THEN CHOOSE e \in DOMAIN ExtText : ExtText[e] = ext
        ELSE "other"

\* ------------------------------------------- read_csv_file, the DataFrame
\* the bytes of a readable object of the model: the records Name,Amount /
\* Alice,10 / Bob,20.5, as the lines of a CSV text
ExampleCsv ==
    <<<<"N", "a", "m", "e", ",", "A", "m", "o", "u", "n", "t">>,
      <<"A", "l", "i", "c", "e", ",", "1", "0">>,
      <<"B", "o", "b", ",", "2", "0", ".", "5">>>>
CsvLines(data) ==
    CASE data = "empty" -> <<ExampleCsv[1]>>
      [] data = "short" -> <<ExampleCsv[1], ExampleCsv[2]>>
      [] Parses(data) -> ExampleCsv
      [] OTHER -> <<>>
\* line.split(delim)
RECURSIVE Split(_, _)
Split(chars, d) ==
    IF d \notin Range(chars) THEN <<chars>>
    ELSE LET i == CHOOSE k \in DOMAIN chars :
                      chars[k] = d /\ \A j \in 1 .. k - 1 : chars[j] # d
         IN  <<SubSeq(chars, 1, i - 1)>> \o Split(SubSeq(chars, i + 1, Len(chars)), d)
\* csv.Sniffer().sniff(sample, delimiters=',;\t|'): one of its delimiters
\* that occurs in the sample, or an exception
SniffOutcomes(lines) ==
    {d \in {",", ";", "\t", "|"} : \E i \in DOMAIN lines : d \in Range(lines[i])}
        \cup {"error"}
\* pd.read_csv(sep=delimiter, engine='python', on_bad_lines='skip'): the
\* first line names the columns, a line with too many fields is skipped, a
\* missing or empty field is NaN, and a column whose fields all read as
\* numbers gets a numeric dtype
read_csv_file(lines, sniffed) ==
    IF lines = <<>> THEN [columns |-> <<>>, cells |-> <<>>, rows |-> 0]
    ELSE
    LET d == detect_delimiter(lines, sniffed)
        header == Split(lines[1], d)
        body == [i \in 1 .. Len(lines) - 1 |-> Split(lines[i + 1], d)]
        kept == SelectSeq(body, LAMBDA f : Len(f) <= Len(header))
        raw(i, j) == IF j <= Len(kept[i]) THEN kept[i][j] ELSE <<>>
        numeric(j) == \A i \in DOMAIN kept : raw(i, j) = <<>> \/ ParseNumber(raw(i, j)).ok
        cell(i, j) == IF raw(i, j) = <<>> THEN NullCell
                      ELSE IF numeric(j) THEN NumCell(raw(i, j))
                      ELSE StrCell(raw(i, j))
    IN  [columns |-> header,
         cells |-> [j \in DOMAIN header |-> [i \in DOMAIN kept |-> cell(i, j)]],
         rows |-> Len(kept)]
\* the frames the reader of the object's format can return
RawFrames(data) ==
    {read_csv_file(CsvLines(data), sniffed) : sniffed \in SniffOutcomes(CsvLines(data))}
\* the same, tabulated over the contents of the model
AllContents == Contents \cup {"empty", "short"}
FramesRead == [data \in AllContents |-> RawFrames(data)]
\* df.empty: no rows or no columns
DfEmptyNever(df) == FALSE
DfEmpty(df) == df.rows = 0 \/ df.columns = <<>>
\* steps 3 of process_minio_object: the reader returned a frame, and
\* "if df is None or df.empty: raise ValueError" let it pass
ReadSucceeds(data) == Parses(data) /\ \A df \in FramesRead[data] : ~DfEmpty(df)
\* null_values
NullValues == {<<"n", "a", "n">>, <<"N", "a", "N">>, <<"N", "A">>, <<"N", "/", "A">>, <<"n", "u", "l", "l">>, <<"N", "U", "L", "L">>, <<"N", "o", "n", "e">>, <<>>}
\* x.strip() if isinstance(x, str), then df.replace(null_values, None)
CleanCell(c) ==
    IF c.t # "str" THEN c
    ELSE IF strip(c.v, Whitespace) \in NullValues THEN NullCell
    ELSE StrCell(strip(c.v, Whitespace))
\* clean_dataframe(df): the columns renamed, the rows that are empty
\* throughout dropped, the str cells stripped and the null words replaced
clean_dataframe(df) ==
    LET full == SelectSeq([i \in 1 .. df.rows |-> i],
                          LAMBDA i : \E j \in DOMAIN df.cells : df.cells[j][i] # NullCell)
    IN  [columns |-> CleanColumns(df.columns),
         cells |-> [j \in DOMAIN df.cells |->
                       [k \in DOMAIN full |-> CleanCell(df.cells[j][full[k]])]],
         rows |-> Len(full)]
\* the frames process_minio_object can hold after steps 3 and 4
DataFrames(data) ==
    {clean_dataframe(read_csv_file(CsvLines(data), sniffed)) :
        sniffed \in SniffOutcomes(CsvLines(data))}
FramesCleaned == [data \in AllContents |-> DataFrames(data)]
DataFrame(data) == CHOOSE df \in FramesCleaned[data] : TRUE
\* len(df)
DfRowsCountingHeader(data) == DataFrame(data).rows + 1
DfRows(data) == DataFrame(data).rows
\* load_to_postgres: column_defs, a name and its inferred type per column
column_defs(df, cast) ==
    [j \in DOMAIN df.columns |-> <<df.columns[j], infer_postgres_type(df.cells[j], cast)>>]
\* the same, tabulated over the contents of the model
ColumnDefsOf ==
    [data \in AllContents |-> [cast \in Casts |-> column_defs(DataFrame(data), cast)]]

\* ------------------------------------------------------------- variables
VARIABLES
    catalogSchema,  \* minio_data_catalog: "absent", "nohash" (no content_hash column), "full"
    catalog,        \* the rows of minio_data_catalog
    nextId,         \* the SERIAL sequence behind catalog_id
    clock,          \* CURRENT_TIMESTAMP, one tick per transaction
    born,           \* history: catalog_id and created_at each key got when first inserted
    lastCall,       \* history: the latest update_catalog call and its outcome
    store,          \* the bucket: object path -> bytes
    tables,         \* relational tables created by the loads: name -> number of rows
    docs,           \* unstructured_documents: "absent" or its set of rows
    images,         \* unstructured_images: "absent" or its set of rows
    nextSideId,     \* the SERIAL sequences of the two side tables
    wk,             \* the adapter invocations: position and locals of each
    runs,           \* invocations started
    faults,         \* failures injected so far
    calc            \* the transform under evaluation: its name, argument and result

catalogVars == <<catalogSchema, catalog, nextId, clock, born, lastCall>>
storeVars == <<store, tables, docs, images, nextSideId>>
vars == <<catalogSchema, catalog, nextId, clock, born, lastCall,
          store, tables, docs, images, nextSideId, wk, runs, faults, calc>>

\* ------------------------------------------------ the catalog upsert (SQL)
KeyRows(cat, object_name) ==
    {r \in cat : r.bucket_name = BUCKET /\ r.object_name = object_name}

\* CREATE TABLE IF NOT EXISTS minio_data_catalog (... content_hash TEXT ...)
\* ALTER TABLE ... ADD COLUMN IF NOT EXISTS metadata
EtlEnsureSchema(schema) == IF schema = "absent" THEN "full" ELSE schema

\* the uploader's CREATE TABLE IF NOT EXISTS has no content_hash column
UploaderEnsureSchema(schema) == IF schema = "absent" THEN "nohash" ELSE schema

\* the row INSERT adds: catalog_id from the sequence, created_at by default,
\* last_modified left NULL
InsertedRow(a, id, now) ==
    [catalog_id |-> id, bucket_name |-> BUCKET, object_name |-> a.object_name,
     object_size |-> a.object_size, file_format |-> a.file_format,
     row_count |-> a.row_count, text_extracted |-> a.text_extracted,
     content_hash |-> a.content_hash, uploaded_by |-> a.uploaded_by,
     metadata |-> a.metadata, last_modified |-> NULL, created_at |-> now]

EtlOnConflictFresh(r, a, id, now) ==
    [InsertedRow(a, id, now) EXCEPT !.last_modified = now]
\* ON CONFLICT (bucket_name, object_name) DO UPDATE SET ... of the ETL
EtlOnConflict(r, a, id, now) ==
    [r EXCEPT !.object_size = a.object_size, !.file_format = a.file_format,
              !.row_count = a.row_count, !.text_extracted = a.text_extracted,
              !.content_hash = a.content_hash, !.uploaded_by = a.uploaded_by,
              !.metadata = a.metadata, !.last_modified = now]

\* ON CONFLICT ... DO UPDATE SET ... of the uploader: content_hash is not touched
UploaderOnConflict(r, a, id, now) ==
    [r EXCEPT !.object_size = a.object_size, !.file_format = a.file_format,
              !.row_count = a.row_count, !.text_extracted = a.text_extracted,
              !.uploaded_by = a.uploaded_by,
              !.metadata = a.metadata, !.last_modified = now]

\* INSERT ... ON CONFLICT DO UPDATE, as one statement
EtlUpsertRows(cat, a, id, now) ==
    IF KeyRows(cat, a.object_name) = {}
    THEN cat \cup {InsertedRow(a, id, now)}
    ELSE {IF r \in KeyRows(cat, a.object_name)
          THEN EtlOnConflict(r, a, id, now) ELSE r : r \in cat}

UploaderInsertRows(cat, a, id, now) == cat \cup {InsertedRow(a, id, now)}
UploaderUpsertRows(cat, a, id, now) ==
    IF KeyRows(cat, a.object_name) = {}
    THEN cat \cup {InsertedRow(a, id, now)}
    ELSE {IF r \in KeyRows(cat, a.object_name)
          THEN UploaderOnConflict(r, a, id, now) ELSE r : r \in cat}

\* the INSERT of the ETL names content_hash: it fails on a table without it
EtlInsertSucceeds(schema) == EtlEnsureSchema(schema) = "full"

BornOf(cat, a, id, now) ==
    IF KeyRows(cat, a.object_name) = {}
    THEN {[object_name |-> a.object_name, catalog_id |-> id, created_at |-> now]}
    ELSE {}

\* LakehouseETL.update_catalog: one transaction, committed or raised
update_catalog(a) ==
    /\ clock' = clock + 1
    /\ IF EtlInsertSucceeds(catalogSchema)
       THEN /\ catalogSchema' = EtlEnsureSchema(catalogSchema)
            /\ catalog' = EtlUpsertRows(catalog, a, nextId, clock)
            /\ nextId' = nextId + 1
            /\ born' = born \cup BornOf(catalog, a, nextId, clock)
            /\ lastCall' = [who |-> "etl", args |-> a, committed |-> TRUE,
                            before |-> KeyRows(catalog, a.object_name)]
       ELSE /\ UNCHANGED <<catalogSchema, catalog, nextId, born>>
            /\ lastCall' = [who |-> "etl", args |-> a, committed |-> FALSE,
                            before |-> KeyRows(catalog, a.object_name)]

\* uploader_app.update_catalog
uploader_update_catalog(a) ==
    /\ clock' = clock + 1
    /\ catalogSchema' = UploaderEnsureSchema(catalogSchema)
    /\ catalog' = UploaderUpsertRows(catalog, a, nextId, clock)
    /\ nextId' = nextId + 1
    /\ born' = born \cup BornOf(catalog, a, nextId, clock)
    /\ lastCall' = [who |-> "uploader", args |-> a, committed |-> TRUE,
                    before |-> KeyRows(catalog, a.object_name)]


\* ------------------------------------------------ the adapters: locals
\* one invocation of run_pipeline_for_object, before it starts
IdleWorker ==
    [pc |-> "idle", obj |-> <<>>, kind |-> "none", data |-> "none",
     dup |-> FALSE,        \* what is_duplicate returned
     text |-> FALSE,       \* full_text / text / ocr_text is non-blank
     parsed |-> FALSE,     \* the extractor opened the bytes
     ntab |-> 0,           \* tables the extractor returned
     tidx |-> 0,           \* the table being processed
     count |-> 0,          \* table_count (pdf, pptx) or total_rows (docx)
     existing |-> FALSE,   \* SELECT id FROM unstructured_documents returned a row
     aborted |-> FALSE,    \* the connection is in a failed transaction
     heavy |-> FALSE,      \* history: extraction ran
     failedCall |-> FALSE, \* history: an object-store or database call failed
     primCalls |-> 0,      \* history: committed catalog upserts for the primary path
     primArgs |-> <<>>,    \* history: the arguments of that upsert
     persisted |-> {},     \* history: tables stored and loaded by this invocation
     wrote |-> FALSE,      \* history: a put, a table load or a side-table write happened
     columnDefs |-> <<>>,  \* history: the column_defs of the CREATE TABLE
     putFailed |-> {},     \* history: tables whose CSV put failed
     loadFailed |-> {},    \* history: tables whose relational load failed
     catFailed |-> {},     \* history: tables whose catalog upsert failed
     cataloged |-> {},     \* history: tables whose catalog upsert committed
     primFailed |-> FALSE, \* history: the upsert for the primary path was called and raised
     ocrFailed |-> FALSE,  \* history: pytesseract raised
     knownAtGate |-> FALSE,\* history: a catalog row carried the hash at the gate
     twinAtStart |-> {},   \* history: other cataloged paths holding the same bytes
     prior |-> {}]         \* history: paths processed to completion before the start

Upd(w, r) == wk' = [wk EXCEPT ![w] = r]

\* the environment lets the call through, or fails it
Outcome(ok) == /\ ok \/ faults < MaxFaults
               /\ faults' = IF ok THEN faults ELSE faults + 1

\* the format the adapter writes for its primary object
FileFormat(r) ==
    CASE r.kind = "pdf" -> "pdf"
      [] r.kind = "docx" -> r.obj[3]
      [] r.kind = "pptx" -> "pptx"
      [] r.kind = "image" -> "image"
      [] OTHER -> r.obj[3]

\* the stub upsert, were it to leave text_extracted as the full run set it
StubArgsKeepingText(r) ==
    [object_name |-> r.obj, object_size |-> FileSize(r.data),
     file_format |-> FileFormat(r), row_count |-> 0, text_extracted |-> TRUE,
     content_hash |-> calculate_file_hash(r.data), uploaded_by |-> NULL,
     metadata |-> "{}"]
\* catalog_updater(object_name, object_size, file_format, row_count=0,
\*                 text_extracted=False, content_hash=file_hash)
StubArgs(r) ==
    [object_name |-> r.obj, object_size |-> FileSize(r.data),
     file_format |-> FileFormat(r), row_count |-> 0, text_extracted |-> FALSE,
     content_hash |-> calculate_file_hash(r.data), uploaded_by |-> NULL,
     metadata |-> "{}"]

\* catalog_updater(object_name=table_key, object_size=len(csv_bytes),
\*    file_format='csv', row_count=len(table_df), text_extracted=False, content_hash=None)
TableArgs(r) ==
    [object_name |-> TableKey(r.kind, r.obj, r.tidx),
     object_size |-> CsvSize(r.data, r.tidx),
     file_format |-> "csv", row_count |-> TableRows(r.data, r.tidx),
     text_extracted |-> FALSE, content_hash |-> NullHash, uploaded_by |-> NULL,
     metadata |-> "{}"]

\* the row_count of the primary upsert: table_count (pdf, pptx), total_rows
\* (docx), None (image), len(df) (structured)
PrimaryRowCount(r) ==
    CASE r.kind \in {"pdf", "docx", "pptx"} -> r.count
      [] r.kind = "image" -> NULL
      [] OTHER -> DfRows(r.data)

\* the primary upsert, were it to pass an owner on
PrimaryArgsWithOwner(r) ==
    [object_name |-> r.obj, object_size |-> FileSize(r.data),
     file_format |-> FileFormat(r), row_count |-> PrimaryRowCount(r),
     text_extracted |-> r.text,
     content_hash |-> IF r.kind = "structured" THEN NullHash
                      ELSE calculate_file_hash(r.data),
     uploaded_by |-> 7,
     metadata |-> r.kind]
PrimaryArgs(r) ==
    [object_name |-> r.obj, object_size |-> FileSize(r.data),
     file_format |-> FileFormat(r), row_count |-> PrimaryRowCount(r),
     text_extracted |-> r.text,
     content_hash |-> IF r.kind = "structured" THEN NullHash
                      ELSE calculate_file_hash(r.data),
     uploaded_by |-> NULL,
     metadata |-> r.kind]

\* the call of etl.update_catalog on the invocation's own connection: the
\* first execute raises when the connection is in a failed transaction
\* or when the database rejects a statement (ok = FALSE)
UpsertCommits(r, ok) == ok /\ ~r.aborted /\ EtlInsertSucceeds(catalogSchema)
catalog_updater(r, a, ok) ==
    IF r.aborted \/ ~ok THEN UNCHANGED catalogVars ELSE update_catalog(a)

\* ------------------------------------------------ the adapters: the gate
is_duplicate_or_in_flight(r) ==
    \/ \E row \in catalog : row.content_hash = calculate_file_hash(r.data)
    \/ \E v \in Workers : /\ wk[v].obj # r.obj /\ wk[v].data = r.data
                          /\ wk[v].pc \notin {"idle", "gate", "failed"}
\* SELECT 1 FROM minio_data_catalog WHERE content_hash = %s LIMIT 1
is_duplicate(r) ==
    \E row \in catalog : row.content_hash = calculate_file_hash(r.data)

\* the query raises when the table or the column is missing, or when the
\* connection is in a failed transaction
GateQueryRuns(r) == catalogSchema = "full" /\ ~r.aborted

\* run_pipeline_for_object: the else branch logs "Unsupported format" and
\* returns before any adapter is invoked
Unsupported(w, p) ==
    /\ runs < MaxRuns
    /\ w = runs + 1
    /\ p \in RawPaths
    /\ AdapterOf(p[3]) = "unsupported"
    /\ runs' = runs + 1
    /\ Upd(w, [IdleWorker EXCEPT !.pc = "rejected", !.obj = p,
                                 !.kind = AdapterOf(p[3])])
    /\ UNCHANGED <<catalogVars, storeVars, faults, calc>>

\* where a failed get_object leaves the adapter whose first call it is
AfterFetchFailureGates(r) ==
    [r EXCEPT !.pc = IF r.kind = "structured" THEN "extract" ELSE "gate",
              !.failedCall = TRUE]
AfterFetchFailure(r) == [r EXCEPT !.pc = "fetch_failed", !.failedCall = TRUE]

\* process_minio_object when minio_client.get_object raises: the key is
\* absent, or the object store cannot be reached; every adapter lets the
\* exception reach its caller
FetchFailure(w, p) ==
    /\ runs < MaxRuns
    /\ w = runs + 1
    /\ p \in RawPaths
    /\ AdapterOf(p[3]) # "unsupported"
    /\ \/ p \notin DOMAIN store /\ UNCHANGED faults
       \/ p \in DOMAIN store /\ Outcome(FALSE)
    /\ runs' = runs + 1
    /\ Upd(w, AfterFetchFailure([IdleWorker EXCEPT !.obj = p,
                                     !.kind = AdapterOf(p[3])]))
    /\ UNCHANGED <<catalogVars, storeVars, calc>>

\* run_pipeline_for_object: a new connection, the adapter of the extension,
\* and the adapter's get_object
Start(w, p) ==
    /\ runs < MaxRuns
    /\ w = runs + 1
    /\ p \in DOMAIN store
    /\ p \in RawPaths
    /\ AdapterOf(p[3]) # "unsupported"
    /\ runs' = runs + 1
    /\ Upd(w, [IdleWorker EXCEPT
                 !.pc = IF AdapterOf(p[3]) = "structured" THEN "extract" ELSE "gate",
                 !.obj = p, !.kind = AdapterOf(p[3]), !.data = store[p],
                 !.twinAtStart = {row.object_name : row \in
                     {x \in catalog : /\ x.object_name # p
                                      /\ x.object_name \in DOMAIN store
                                      /\ store[x.object_name] = store[p]}},
                 !.prior = {wk[v].obj : v \in {u \in Workers :
                               wk[u].pc = "done" /\ ~wk[u].failedCall}}])
    /\ UNCHANGED <<catalogVars, storeVars, faults, calc>>

\* where a failed gate query leaves the adapter: pdf and pptx catch it and
\* answer False; docx lets it propagate; image rolls back and re-raises
AfterGateErrorSwallowed(r) ==
    [r EXCEPT !.pc = "extract", !.dup = FALSE, !.aborted = TRUE, !.failedCall = TRUE]
AfterGateError(r) ==
    CASE r.kind \in {"pdf", "pptx"} ->
            [r EXCEPT !.pc = "extract", !.dup = FALSE, !.aborted = TRUE,
                      !.failedCall = TRUE]
      [] r.kind = "docx" ->
            [r EXCEPT !.pc = "failed", !.aborted = TRUE, !.failedCall = TRUE]
      [] OTHER ->
            [r EXCEPT !.pc = "failed", !.aborted = FALSE, !.failedCall = TRUE]

\* if is_duplicate(pg_conn, file_hash): ... else: ...
Gate(w) ==
    LET r == wk[w] IN
    /\ r.pc = "gate"
    /\ IF GateQueryRuns(r)
       THEN Upd(w, [r EXCEPT !.dup = is_duplicate(r),
                             !.knownAtGate = \E row \in catalog :
                                 row.content_hash = calculate_file_hash(r.data),
                             !.pc = IF is_duplicate(r) THEN "stub" ELSE "extract"])
       ELSE Upd(w, AfterGateError(r))
    /\ UNCHANGED <<catalogVars, storeVars, runs, faults, calc>>

\* the duplicate branch: the stub upsert inside try/except, then return
StubPuttingText(w) ==
    LET r == wk[w] IN
    /\ r.pc = "stub"
    /\ \E ok \in BOOLEAN :
          /\ Outcome(ok)
          /\ catalog_updater(r, StubArgs(r), ok)
          /\ Upd(w, [r EXCEPT !.pc = "done",
                        !.primCalls = IF UpsertCommits(r, ok) THEN @ + 1 ELSE @,
                        !.primArgs = IF UpsertCommits(r, ok) THEN StubArgs(r) ELSE @,
                        !.aborted = ~UpsertCommits(r, ok),
                        !.primFailed = ~UpsertCommits(r, ok),
                        !.failedCall = @ \/ ~UpsertCommits(r, ok)])
    /\ store' = (TextPath(r.obj) :> <<"text", r.data>>) @@ store
    /\ UNCHANGED <<tables, docs, images, nextSideId, runs, calc>>
Stub(w) ==
    LET r == wk[w] IN
    /\ r.pc = "stub"
    /\ \E ok \in BOOLEAN :
          /\ Outcome(ok)
          /\ catalog_updater(r, StubArgs(r), ok)
          /\ Upd(w, [r EXCEPT !.pc = "done",
                        !.primCalls = IF UpsertCommits(r, ok) THEN @ + 1 ELSE @,
                        !.primArgs = IF UpsertCommits(r, ok) THEN StubArgs(r) ELSE @,
                        !.aborted = ~UpsertCommits(r, ok),
                        !.primFailed = ~UpsertCommits(r, ok),
                        !.failedCall = @ \/ ~UpsertCommits(r, ok)])
    /\ UNCHANGED <<storeVars, runs, calc>>

\* ------------------------------------------- the adapters: control flow
\* pdf_pipeline line 408 reads the local table_count, which the function
\* first assigns on line 462: the dict display raises UnboundLocalError, so
\* pdf_metadata is never bound and the page loop of line 411 is never entered
PdfMetadataBuilt == FALSE
\* ppt_pipeline never imports json: json.dumps of line 556 raises NameError
PptJsonDumped == FALSE

\* the locals each extractor leaves behind
Extracted(r) ==
    CASE r.kind = "pdf" ->
            [r EXCEPT !.parsed = Parses(r.data),
                      !.text = Parses(r.data) /\ PdfMetadataBuilt /\ HasText(r.data),
                      !.ntab = NumTables(r.data), !.heavy = TRUE]
      [] r.kind = "docx" ->
            [r EXCEPT !.parsed = r.obj[3] = "docx" /\ Parses(r.data),
                      !.text = r.obj[3] = "docx" /\ HasText(r.data),
                      !.ntab = IF r.obj[3] = "docx" THEN NumTables(r.data) ELSE 0,
                      !.heavy = TRUE]
      [] r.kind = "structured" ->
            [r EXCEPT !.parsed = ReadSucceeds(r.data), !.heavy = TRUE]
      [] OTHER ->
            [r EXCEPT !.parsed = Parses(r.data), !.text = HasText(r.data),
                      !.ntab = IF r.kind = "pptx" THEN NumTables(r.data) ELSE 0,
                      !.heavy = TRUE]

\* image: pytesseract.image_to_string raised; the except sets ocr_text = None
OcrFailed(r) == [r EXCEPT !.text = FALSE, !.ocrFailed = TRUE]

\* after the text was put and saved
AfterDoc(r) ==
    CASE r.kind = "pptx" -> [r EXCEPT !.pc = "artifacts"]
      [] r.kind = "image" -> [r EXCEPT !.pc = "img_save"]
      [] OTHER -> IF r.ntab > 0 THEN [r EXCEPT !.pc = "tbl_put", !.tidx = 1]
                  ELSE [r EXCEPT !.pc = "primary"]

\* after the last extracted table
AfterTables(r) ==
    IF r.kind = "pptx"
    THEN IF r.text THEN [r EXCEPT !.pc = "text_put"] ELSE [r EXCEPT !.pc = "artifacts"]
    ELSE [r EXCEPT !.pc = "primary"]

AfterExtractLenient(r) ==
    IF r.kind = "structured" THEN [r EXCEPT !.pc = "load"]
    ELSE IF r.text THEN [r EXCEPT !.pc = "text_put"] ELSE AfterDoc(r)
\* after the extractor returned or raised
AfterExtract(r) ==
    CASE r.kind = "structured" ->
            IF r.parsed THEN [r EXCEPT !.pc = "load"] ELSE [r EXCEPT !.pc = "failed"]
      [] r.kind = "pptx" ->
            IF ~r.parsed THEN [r EXCEPT !.pc = "done"]
            ELSE IF r.ntab > 0 THEN [r EXCEPT !.pc = "tbl_put", !.tidx = 1]
            ELSE AfterTables(r)
      [] r.kind = "image" ->
            IF ~r.parsed THEN [r EXCEPT !.pc = "failed"]
            ELSE IF r.text THEN [r EXCEPT !.pc = "text_put"]
            ELSE [r EXCEPT !.pc = "img_save"]
      [] OTHER ->
            IF r.text THEN [r EXCEPT !.pc = "text_put"] ELSE AfterDoc(r)

\* table_count += 1 (pdf, pptx), total_rows += len(df) (docx): after
\* _process_extracted_table returned, whatever happened inside it
CountAfter(r) ==
    IF r.kind = "docx" THEN r.count + TableRows(r.data, r.tidx) ELSE r.count + 1

\* the end of one pass of the table loop
EndTable(r) ==
    IF r.tidx < r.ntab
    THEN [r EXCEPT !.count = CountAfter(r), !.tidx = @ + 1, !.pc = "tbl_put"]
    ELSE AfterTables([r EXCEPT !.count = CountAfter(r)])

\* _process_extracted_table's outer except after a failed put_object: log,
\* rollback, return; the caller goes on with the next table
AfterPutFailureLoads(r) ==
    [r EXCEPT !.pc = "tbl_load", !.putFailed = @ \cup {r.tidx}]
AfterPutFailure(r) ==
    EndTable([r EXCEPT !.aborted = FALSE, !.failedCall = TRUE,
                       !.putFailed = @ \cup {r.tidx}])

\* the same after a failed load (rolled back by the inner except first)
AfterLoadFailureCatalogs(r) ==
    [r EXCEPT !.pc = "tbl_catalog", !.aborted = FALSE,
              !.loadFailed = @ \cup {r.tidx}]
AfterLoadFailure(r) ==
    EndTable([r EXCEPT !.aborted = FALSE, !.failedCall = TRUE,
                       !.loadFailed = @ \cup {r.tidx}])

\* DROP TABLE IF EXISTS, CREATE TABLE, COPY, commit: the table holds the rows
\* of this load only
LoadedAppending(tbls, name, rows) ==
    (name :> (IF name \in DOMAIN tbls THEN tbls[name] + rows ELSE rows)) @@ tbls
Loaded(tbls, name, rows) == (name :> rows) @@ tbls

\* the relational tables inside the open transaction after DROP TABLE IF EXISTS
Dropped(tbls, name) == [n \in DOMAIN tbls \ {name} |-> tbls[n]]
\* pg_conn.rollback(): the tables as they were when the transaction began
RolledBackNothing(before, inTxn) == inTxn
RolledBack(before, inTxn) == before

\* after the primary upsert returned or raised
AfterPrimaryReordered(r, committed) ==
    IF r.kind = "docx" /\ r.ntab > 0 /\ r.primCalls = 1
    THEN [r EXCEPT !.pc = "tbl_put", !.tidx = 1, !.ntab = 1]
    ELSE [r EXCEPT !.pc = "done"]
AfterPrimary(r, committed) ==
    IF ~committed /\ r.kind \in {"image", "structured"}
    THEN [r EXCEPT !.pc = "failed", !.aborted = FALSE]
    ELSE [r EXCEPT !.pc = "done"]

\* ------------------------------------------------ the adapters: the steps
\* put_object writes one key and leaves every other object alone
PutRemovingRaw(p, bytes) ==
    store' = (p :> bytes) @@ [q \in DOMAIN store \ RawPaths |-> store[q]]
Put(p, bytes) == store' = (p :> bytes) @@ store
\* the extractor (PdfReader / Document / Presentation / Image.open + OCR /
\* read_csv_file ...) runs on the bytes
Extract(w) ==
    LET r == wk[w] IN
    /\ r.pc = "extract"
    /\ \E ocr \in BOOLEAN :
          /\ ocr \/ (r.kind = "image" /\ Parses(r.data))
          /\ Outcome(ocr)
          /\ Upd(w, AfterExtract(IF ocr THEN Extracted(r) ELSE OcrFailed(Extracted(r))))
    /\ UNCHANGED <<catalogVars, storeVars, runs, calc>>

\* put_object of the extracted text
TextPut(w) ==
    LET r == wk[w] IN
    /\ r.pc = "text_put"
    /\ \E ok \in BOOLEAN :
          /\ Outcome(ok)
          /\ IF ok
             THEN /\ Put(TextPath(r.obj), <<"txt", r.data>>)
                  /\ Upd(w, [r EXCEPT !.wrote = TRUE,
                                      !.pc = CASE r.kind = "docx" -> "doc_save"
                                               [] r.kind = "image" -> "img_save"
                                               [] OTHER -> "doc_select"])
             ELSE /\ UNCHANGED store
                  /\ Upd(w, CASE r.kind = "docx" ->
                                   [r EXCEPT !.pc = "failed", !.failedCall = TRUE]
                              [] r.kind = "image" ->
                                   [r EXCEPT !.pc = "img_save", !.text = FALSE,
                                             !.failedCall = TRUE]
                              [] OTHER ->
                                   [r EXCEPT !.pc = "doc_select", !.failedCall = TRUE])
    /\ UNCHANGED <<catalogVars, tables, docs, images, nextSideId, runs, calc>>

DocRow(r, id) ==
    [id |-> id, object_name |-> r.obj, file_type |-> FileFormat(r),
     text_content |-> <<"txt", r.data>>,
     content_hash |-> calculate_file_hash(r.data)]

\* docx _save_unstructured_doc: CREATE TABLE IF NOT EXISTS (content_hash UNIQUE),
\* then INSERT ... ON CONFLICT (content_hash) DO UPDATE SET text_content, object_name
DocxUpsertRows(rows, r, id) ==
    IF \E d \in rows : d.content_hash = calculate_file_hash(r.data)
    THEN {IF d.content_hash = calculate_file_hash(r.data)
          THEN [d EXCEPT !.text_content = <<"txt", r.data>>, !.object_name = r.obj]
          ELSE d : d \in rows}
    ELSE rows \cup {DocRow(r, id)}

DocSave(w) ==
    LET r == wk[w] IN
    /\ r.pc = "doc_save"
    /\ IF r.aborted
       THEN /\ Upd(w, [r EXCEPT !.pc = "failed", !.aborted = FALSE, !.failedCall = TRUE])
            /\ UNCHANGED <<docs, nextSideId>>
       ELSE /\ docs' = DocxUpsertRows(docs, r, nextSideId)
            /\ nextSideId' = nextSideId + 1
            /\ Upd(w, AfterDoc([r EXCEPT !.wrote = TRUE]))
    /\ UNCHANGED <<catalogVars, store, tables, images, runs, faults, calc>>

\* pdf / pptx _save_unstructured_doc, first half: _ensure_unstructured_table
\* (CREATE TABLE IF NOT EXISTS, ADD CONSTRAINT UNIQUE (content_hash), commit)
\* and SELECT id ... WHERE content_hash = %s
DocSelect(w) ==
    LET r == wk[w] IN
    /\ r.pc = "doc_select"
    /\ IF r.aborted
       THEN /\ Upd(w, AfterDoc([r EXCEPT !.aborted = FALSE, !.failedCall = TRUE]))
            /\ UNCHANGED docs
       ELSE /\ UNCHANGED docs
            /\ Upd(w, [r EXCEPT !.pc = "doc_write",
                          !.existing = \E d \in docs :
                              d.content_hash = calculate_file_hash(r.data)])
    /\ UNCHANGED <<catalogVars, store, tables, images, nextSideId, runs, faults, calc>>

\* the UNIQUE (content_hash) constraint rejects the INSERT
UniqueViolation(rows, h) == \E d \in rows : d.content_hash = h

\* pdf / pptx _save_unstructured_doc, second half: UPDATE the existing row or
\* INSERT a new one, commit; an exception is rolled back and logged
DocWrite(w) ==
    LET r == wk[w]
        h == calculate_file_hash(r.data) IN
    /\ r.pc = "doc_write"
    /\ IF r.existing
       THEN /\ docs' = {IF d.content_hash = h
                        THEN [d EXCEPT !.text_content = <<"txt", r.data>>,
                                       !.object_name = r.obj,
                                       !.file_type = FileFormat(r)]
                        ELSE d : d \in docs}
            /\ UNCHANGED nextSideId
            /\ Upd(w, AfterDoc([r EXCEPT !.wrote = TRUE]))
       ELSE IF UniqueViolation(docs, h)
       THEN /\ UNCHANGED docs
            /\ nextSideId' = nextSideId + 1
            /\ Upd(w, AfterDoc([r EXCEPT !.failedCall = TRUE]))
       ELSE /\ docs' = docs \cup {DocRow(r, nextSideId)}
            /\ nextSideId' = nextSideId + 1
            /\ Upd(w, AfterDoc([r EXCEPT !.wrote = TRUE]))
    /\ UNCHANGED <<catalogVars, store, tables, images, runs, faults, calc>>

ImageRow(r, id) ==
    [id |-> id, object_name |-> r.obj, ocr_text |-> r.text,
     content_hash |-> calculate_file_hash(r.data)]

\* image: _ensure_unstructured_images_table, then INSERT INTO unstructured_images
\* ... ON CONFLICT (content_hash) DO UPDATE SET object_name, ..., ocr_text
ImageUpsertRows(rows, r, id) ==
    IF \E d \in rows : d.content_hash = calculate_file_hash(r.data)
    THEN {IF d.content_hash = calculate_file_hash(r.data)
          THEN [d EXCEPT !.object_name = r.obj, !.ocr_text = r.text]
          ELSE d : d \in rows}
    ELSE rows \cup {ImageRow(r, id)}

ImgSave(w) ==
    LET r == wk[w] IN
    /\ r.pc = "img_save"
    /\ IF r.aborted
       THEN /\ Upd(w, [r EXCEPT !.pc = "failed", !.aborted = FALSE, !.failedCall = TRUE])
            /\ UNCHANGED <<images, nextSideId>>
       ELSE /\ images' = ImageUpsertRows(images, r, nextSideId)
            /\ nextSideId' = nextSideId + 1
            /\ Upd(w, [r EXCEPT !.pc = "primary", !.wrote = TRUE])
    /\ UNCHANGED <<catalogVars, store, tables, docs, runs, faults, calc>>

\* _process_extracted_table: put_object of the table's CSV; a failure is
\* caught by the outer except, which rolls back and returns
TblPut(w) ==
    LET r == wk[w] IN
    /\ r.pc = "tbl_put"
    /\ \E ok \in BOOLEAN :
          /\ Outcome(ok)
          /\ IF ok
             THEN /\ Put(TableKey(r.kind, r.obj, r.tidx), <<"csv", r.data>>)
                  /\ Upd(w, [r EXCEPT !.pc = "tbl_load", !.wrote = TRUE])
             ELSE /\ UNCHANGED store
                  /\ Upd(w, AfterPutFailure(r))
    /\ UNCHANGED <<catalogVars, tables, docs, images, nextSideId, runs, calc>>

\* _process_extracted_table: DROP TABLE IF EXISTS, CREATE TABLE, COPY, commit;
\* a failure rolls back and the table is skipped
TblLoad(w) ==
    LET r == wk[w] IN
    /\ r.pc = "tbl_load"
    /\ \E ok \in BOOLEAN :
          /\ Outcome(ok)
          /\ IF ok /\ ~r.aborted
             THEN /\ tables' = Loaded(tables,
                                  sanitize_table_name(TableKey(r.kind, r.obj, r.tidx)),
                                  TableRows(r.data, r.tidx))
                  /\ Upd(w, [r EXCEPT !.pc = "tbl_catalog", !.wrote = TRUE,
                                      !.persisted = @ \cup {r.tidx}])
             ELSE /\ tables' = RolledBack(tables, Dropped(tables,
                                  sanitize_table_name(TableKey(r.kind, r.obj, r.tidx))))
                  /\ Upd(w, AfterLoadFailure(r))
    /\ UNCHANGED <<catalogVars, store, docs, images, nextSideId, runs, calc>>

\* _process_extracted_table: the catalog upsert of the table; pdf and pptx
\* only log a failure, docx rolls back
TblCatalog(w) ==
    LET r == wk[w] IN
    /\ r.pc = "tbl_catalog"
    /\ \E ok \in BOOLEAN :
          /\ Outcome(ok)
          /\ catalog_updater(r, TableArgs(r), ok)
          /\ Upd(w, EndTable([r EXCEPT
                 !.aborted = ~UpsertCommits(r, ok) /\ r.kind # "docx",
                 !.cataloged = IF UpsertCommits(r, ok) THEN @ \cup {r.tidx} ELSE @,
                 !.catFailed = IF UpsertCommits(r, ok) THEN @ ELSE @ \cup {r.tidx},
                 !.failedCall = @ \/ ~UpsertCommits(r, ok)]))
    /\ UNCHANGED <<storeVars, runs, calc>>

\* pptx: the structured JSON (never dumped) and the ppt/media images, each
\* put inside its own try/except
Artifacts(w) ==
    LET r == wk[w] IN
    /\ r.pc = "artifacts"
    /\ \E ok \in BOOLEAN :
          /\ Outcome(ok)
          /\ IF ok
             THEN store' = [i \in {ImagePath(r.obj, k) : k \in 1 .. NumImages(r.data)}
                              |-> <<"bin", r.data>>] @@ store
             ELSE UNCHANGED store
          /\ Upd(w, [r EXCEPT !.pc = "primary", !.failedCall = @ \/ ~ok,
                              !.wrote = @ \/ ok])
    /\ UNCHANGED <<catalogVars, tables, docs, images, nextSideId, runs, calc>>

\* structured: load_to_postgres(df, sanitize_table_name(object_name), ...)
LoadToPostgres(w) ==
    LET r == wk[w] IN
    /\ r.pc = "load"
    /\ \E ok \in BOOLEAN, cast \in Casts :
          /\ Outcome(ok)
          /\ IF ok /\ ~r.aborted
             THEN /\ tables' = Loaded(tables, sanitize_table_name(r.obj), DfRows(r.data))
                  /\ Upd(w, [r EXCEPT !.pc = "parquet", !.persisted = {0}, !.wrote = TRUE,
                                      !.columnDefs = ColumnDefsOf[r.data][cast]])
             ELSE /\ tables' = RolledBack(tables, Dropped(tables, sanitize_table_name(r.obj)))
                  /\ Upd(w, [r EXCEPT !.pc = "failed", !.aborted = FALSE,
                                      !.failedCall = TRUE, !.loadFailed = {0}])
    /\ UNCHANGED <<catalogVars, store, docs, images, nextSideId, runs, calc>>

\* structured: save_to_parquet; a failure is logged and swallowed
SaveToParquet(w) ==
    LET r == wk[w] IN
    /\ r.pc = "parquet"
    /\ \E ok \in BOOLEAN :
          /\ Outcome(ok)
          /\ IF ok THEN Put(ParquetName(r.obj), <<"parquet", r.data>>)
                   ELSE UNCHANGED store
          /\ Upd(w, [r EXCEPT !.pc = "primary", !.failedCall = @ \/ ~ok,
                              !.wrote = @ \/ ok])
    /\ UNCHANGED <<catalogVars, tables, docs, images, nextSideId, runs, calc>>

\* the metadata dict of the primary upsert can be built: pdf_metadata is
\* unbound; docx and pptx parse the bytes once more
MetadataBuilt(r) ==
    CASE r.kind = "pdf" -> PdfMetadataBuilt
      [] r.kind = "docx" -> r.obj[3] = "docx" /\ Parses(r.data)
      [] r.kind = "pptx" -> Parses(r.data)
      [] OTHER -> TRUE

\* the catalog upsert for the primary object
Primary(w) ==
    LET r == wk[w] IN
    /\ r.pc = "primary"
    /\ IF MetadataBuilt(r)
       THEN \E ok \in BOOLEAN :
            /\ Outcome(ok)
            /\ catalog_updater(r, PrimaryArgs(r), ok)
            /\ Upd(w, AfterPrimary(
                         [r EXCEPT !.primCalls = IF UpsertCommits(r, ok) THEN @ + 1 ELSE @,
                                   !.primArgs = IF UpsertCommits(r, ok) THEN PrimaryArgs(r) ELSE @,
                                   !.aborted = ~UpsertCommits(r, ok),
                                   !.primFailed = ~UpsertCommits(r, ok),
                                   !.failedCall = @ \/ ~UpsertCommits(r, ok)],
                         UpsertCommits(r, ok)))
       ELSE /\ UNCHANGED <<catalogVars, faults>>
            /\ Upd(w, [r EXCEPT !.pc = "done"])
    /\ UNCHANGED <<storeVars, runs, calc>>

\* the process running the invocation is killed between two steps of the
\* table loop; its connection closes, nothing it committed is undone
Crash(w) ==
    LET r == wk[w] IN
    /\ r.pc \in {"tbl_put", "tbl_load", "tbl_catalog"}
    /\ Outcome(FALSE)
    /\ Upd(w, [r EXCEPT !.pc = "crashed", !.failedCall = TRUE])
    /\ UNCHANGED <<catalogVars, storeVars, runs, calc>>

\* no transform is being evaluated
NoCalc == [fn |-> "none", arg |-> <<>>, res |-> <<>>]

\* ------------------------------------------------------------------- Spec
\* two uploaded objects; the catalog table exists or not
Init ==
    /\ catalogSchema \in {"absent", "full"}
    /\ catalog = {}
    /\ nextId = 1
    /\ clock = 1
    /\ born = {}
    /\ lastCall = [who |-> "none", args |-> <<>>, committed |-> FALSE, before |-> {}]
    /\ \E ea \in Exts, eb \in Exts :
       \E ca \in ContentsOf(ea), cb \in ContentsOf(eb) :
          store = (RawPath("a", ea) :> ca) @@ (RawPath("b", eb) :> cb)
    /\ tables = <<>>
    /\ docs = {}
    /\ images = {}
    /\ nextSideId = 1
    /\ wk = [w \in Workers |-> IdleWorker]
    /\ runs = 0
    /\ faults = 0
    /\ calc = NoCalc

Next ==
    \E w \in Workers :
        \/ \E p \in RawPaths : Unsupported(w, p)
        \/ \E p \in RawPaths : FetchFailure(w, p)
        \/ \E p \in RawPaths : Start(w, p)
        \/ Gate(w)
        \/ Stub(w)
        \/ Extract(w)
        \/ TextPut(w)
        \/ DocSave(w)
        \/ DocSelect(w)
        \/ DocWrite(w)
        \/ ImgSave(w)
        \/ TblPut(w)
        \/ TblLoad(w)
        \/ TblCatalog(w)
        \/ Artifacts(w)
        \/ LoadToPostgres(w)
        \/ SaveToParquet(w)
        \/ Primary(w)
        \/ Crash(w)

Spec == Init /\ [][Next]_vars

\* ------------------------------------------------------------- SpecShared
\* the structured adapter on a bucket where two tabular uploads have the
\* same final-segment stem, raw/a.csv and raw/a.json; an upload holds the
\* example, its first record only ("short"), its header only, or junk
InitShared ==
    /\ catalogSchema \in {"absent", "full"}
    /\ catalog = {}
    /\ nextId = 1
    /\ clock = 1
    /\ born = {}
    /\ lastCall = [who |-> "none", args |-> <<>>, committed |-> FALSE, before |-> {}]
    /\ \E ca \in AllContents, cb \in AllContents :
          store = (RawPath("a", "csv") :> ca) @@ (RawPath("a", "json") :> cb)
    /\ tables = <<>>
    /\ docs = {}
    /\ images = {}
    /\ nextSideId = 1
    /\ wk = [w \in Workers |-> IdleWorker]
    /\ runs = 0
    /\ faults = 0
    /\ calc = NoCalc

NextShared ==
    \E w \in Workers :
        \/ \E p \in RawPaths : FetchFailure(w, p)
        \/ \E p \in RawPaths : Start(w, p)
        \/ Extract(w)
        \/ LoadToPostgres(w)
        \/ SaveToParquet(w)
        \/ Primary(w)

SpecShared == InitShared /\ [][NextShared]_vars

\* ------------------------------------------------------------ SpecCatalog
CallPaths == {RawPath(n, "docx") : n \in Names}
CallSizes == {10, 20}
CallRowCounts == {0, 2}
CallHashes == {NullHash, <<"sha256", "doc">>}
CallUsers == {7}

NoCall == [who |-> "none", args |-> <<>>, committed |-> FALSE, before |-> {}]

InitCatalog ==
    /\ catalogSchema = "absent"
    /\ catalog = {}
    /\ nextId = 1
    /\ clock = 1
    /\ born = {}
    /\ lastCall = NoCall
    /\ store = <<>>
    /\ tables = <<>>
    /\ docs = {}
    /\ images = {}
    /\ nextSideId = 1
    /\ wk = <<>>
    /\ runs = 0
    /\ faults = 0
    /\ calc = NoCalc

\* an adapter (or any ETL caller) upserts: uploaded_by is never passed
EtlCall ==
    /\ clock <= MaxCalls
    /\ \E p \in CallPaths, s \in CallSizes, rc \in CallRowCounts, h \in CallHashes :
          update_catalog([object_name |-> p, object_size |-> s, file_format |-> "docx",
                          row_count |-> rc, text_extracted |-> (h # NullHash),
                          content_hash |-> h, uploaded_by |-> NULL,
                          metadata |-> "{}"])
    /\ UNCHANGED <<storeVars, wk, runs, faults, calc>>

\* upload_file: update_catalog(BUCKET, object_name, object_size, file_format,
\*                             uploaded_by, metadata=basic_metadata)
UploadCall ==
    /\ clock <= MaxCalls
    /\ \E p \in CallPaths, s \in CallSizes, u \in CallUsers :
          uploader_update_catalog(
              [object_name |-> p, object_size |-> s, file_format |-> "docx",
               row_count |-> NULL, text_extracted |-> FALSE,
               content_hash |-> NullHash, uploaded_by |-> u,
               metadata |-> "basic_metadata"])
    /\ UNCHANGED <<storeVars, wk, runs, faults, calc>>

\* the locals of a docx invocation at its catalog upserts
AdapterLocals ==
    {[IdleWorker EXCEPT !.obj = p, !.kind = AdapterOf(p[3]), !.data = "doc",
                        !.text = text, !.tidx = 1, !.count = TableRows("doc", 1)] :
        p \in CallPaths, text \in BOOLEAN}
\* the arguments the adapters pass to catalog_updater
StubCalls == {StubArgs(r) : r \in AdapterLocals}
TableCalls == {TableArgs(r) : r \in AdapterLocals}
PrimaryCalls == {PrimaryArgs(r) : r \in AdapterLocals}
\* an adapter upserts: the duplicate stub, a derived table, or the primary
AdapterCall ==
    /\ clock <= MaxCalls
    /\ \E a \in StubCalls \cup TableCalls \cup PrimaryCalls : update_catalog(a)
    /\ UNCHANGED <<storeVars, wk, runs, faults, calc>>

NextCatalog == EtlCall \/ UploadCall \/ AdapterCall

SpecCatalog == InitCatalog /\ [][NextCatalog]_vars

\* ------------------------------------------------- claims on SpecCatalog
\* C1: a committed ETL upsert on a key that already has a row leaves exactly
\* one row for the key; its object_size and row_count are those of this
\* (second) call, its catalog_id and created_at those the first call assigned
C1_SecondCallUpdatesInPlace ==
    (lastCall.who = "etl" /\ lastCall.committed /\ lastCall.before # {}) =>
        LET rows == KeyRows(catalog, lastCall.args.object_name) IN
        /\ Cardinality(rows) = 1
        /\ \A r \in rows :
              /\ r.object_size = lastCall.args.object_size
              /\ r.row_count = lastCall.args.row_count
              /\ \A o \in lastCall.before :
                    r.catalog_id = o.catalog_id /\ r.created_at = o.created_at
              /\ \E b \in born : /\ b.object_name = r.object_name
                                 /\ b.catalog_id = r.catalog_id
                                 /\ b.created_at = r.created_at

\* the second call came with another size and another row_count than the
\* first, which had inserted the row
C1_Witness ==
    /\ lastCall.who = "etl" /\ lastCall.committed
    /\ \E o \in lastCall.before :
          /\ o.last_modified = NULL
          /\ o.object_size # lastCall.args.object_size
          /\ o.row_count # lastCall.args.row_count
          /\ \E r \in catalog : /\ r.object_name = o.object_name
                                /\ r.object_size = lastCall.args.object_size
                                /\ r.created_at = o.created_at

\* C2: whatever upserts the ETL and the upload endpoint committed, in any
\* order, every upserted (bucket, object_name) has exactly one catalog row, and
\* the row still carries the catalog_id and created_at of its insertion
C2_OneRowPerKeyIdentityKept ==
    /\ \A r1 \in catalog : \A r2 \in catalog :
          (r1.bucket_name = r2.bucket_name /\ r1.object_name = r2.object_name)
              => r1 = r2
    /\ \A b \in born : \E r \in catalog : /\ r.object_name = b.object_name
                                          /\ r.catalog_id = b.catalog_id
                                          /\ r.created_at = b.created_at
    /\ \A r \in catalog : \E b \in born : b.object_name = r.object_name

\* two keys were upserted, one of them inserted by an adapter and then
\* updated by the upload endpoint
C2_Witness ==
    /\ Cardinality(born) = 2
    /\ \E r \in catalog : /\ r.content_hash # NullHash
                          /\ r.uploaded_by \in CallUsers
                          /\ r.last_modified # NULL

\* ------------------------------------------------------- claims on Spec
Terminated(r) == r.pc \in {"done", "failed"}
Hash(r) == calculate_file_hash(r.data)

\* C3: an invocation on object B that started when the catalog already held
\* a row for another path with B's bytes, handled by the same adapter,
\* extracts nothing, writes nothing, and upserts B's row with row_count 0,
\* text_extracted false and the shared content hash
C3_KnownContentIsSkipped ==
    \A w \in Workers :
        (/\ Terminated(wk[w]) /\ ~wk[w].failedCall
         /\ \E t \in wk[w].twinAtStart : AdapterOf(t[3]) = wk[w].kind) =>
            /\ ~wk[w].heavy
            /\ ~wk[w].wrote
            /\ wk[w].primCalls = 1
            /\ wk[w].primArgs.row_count = 0
            /\ ~wk[w].primArgs.text_extracted
            /\ wk[w].primArgs.content_hash = Hash(wk[w])

\* C4: a PDF processed to completion at path A, then the same bytes
\* processed at path B: one unstructured_documents row for the hash, one
\* catalog row for A, one for B, and B's has row_count 0
C4_PdfThenIdenticalCopy ==
    \A v \in Workers : \A w \in Workers :
        (/\ wk[v].kind = "pdf" /\ wk[w].kind = "pdf"
         /\ wk[v].pc = "done" /\ wk[w].pc = "done"
         /\ wk[v].obj # wk[w].obj /\ wk[v].data = wk[w].data
         /\ Parses(wk[w].data)
         /\ wk[v].obj \in wk[w].prior
         /\ ~wk[v].failedCall /\ ~wk[w].failedCall) =>
            /\ Cardinality({d \in docs : d.content_hash = Hash(wk[w])}) = 1
            /\ Cardinality(KeyRows(catalog, wk[v].obj)) = 1
            /\ Cardinality(KeyRows(catalog, wk[w].obj)) = 1
            /\ \A r \in KeyRows(catalog, wk[w].obj) : r.row_count = 0

\* C5: an invocation on a readable object in which no store call failed has,
\* once terminated, committed exactly one upsert for its own path: the stub
\* if the gate knew the hash, else the full one with size, format and (except
\* for structured) the content hash
C5_ExactlyOnePrimaryUpsert ==
    \A w \in Workers :
        (Terminated(wk[w]) /\ ~wk[w].failedCall /\ Parses(wk[w].data)) =>
            /\ wk[w].primCalls = 1
            /\ IF wk[w].knownAtGate
               THEN wk[w].primArgs = StubArgs(wk[w])
               ELSE /\ wk[w].primArgs.object_size = FileSize(wk[w].data)
                    /\ wk[w].primArgs.file_format = FileFormat(wk[w])
                    /\ wk[w].kind # "structured" =>
                           wk[w].primArgs.content_hash = Hash(wk[w])

\* C6: a step of an invocation that changes the object store, a relational
\* table, a side table or the catalog is taken only while the invocation has
\* not committed the upsert for its primary object: that upsert is its last
\* store-mutating step
C6_PrimaryUpsertIsLast ==
    [][\A w \in Workers :
          (/\ wk'[w] # wk[w]
           /\ <<store, tables, docs, images, catalog>>' #
                  <<store, tables, docs, images, catalog>>)
              => wk[w].primCalls = 0]_vars

\* an invocation that put its text, wrote the side table, stored, loaded and
\* cataloged a table, and then committed the primary upsert
C6_Witness ==
    \E w \in Workers :
        /\ wk[w].pc = "done" /\ wk[w].primCalls = 1 /\ ~wk[w].dup
        /\ wk[w].persisted # {}
        /\ TextPath(wk[w].obj) \in DOMAIN store
        /\ \E d \in docs : d.object_name = wk[w].obj
        /\ \E i \in wk[w].persisted :
              KeyRows(catalog, TableKey(wk[w].kind, wk[w].obj, i)) # {}
        /\ KeyRows(catalog, wk[w].obj) # {}

RECURSIVE SumRows(_, _)
SumRows(data, S) ==
    IF S = {} THEN 0
    ELSE LET i == CHOOSE x \in S : TRUE
         IN TableRows(data, i) + SumRows(data, S \ {i})

\* what the persisted tables alone amount to, in the adapter's own unit
PersistedCount(r) ==
    IF r.kind = "docx" THEN SumRows(r.data, r.persisted)
    ELSE Cardinality(r.persisted)

\* C7: the row_count of the full primary upsert of a pdf, docx or pptx counts
\* the persisted tables only; a table whose put or load failed adds nothing
C7_RowCountOnlyPersisted ==
    \A w \in Workers :
        (/\ wk[w].kind \in {"pdf", "docx", "pptx"}
         /\ wk[w].primCalls = 1 /\ ~wk[w].dup) =>
            wk[w].primArgs.row_count = PersistedCount(wk[w])

\* C8: an invocation on a path that an earlier invocation processed to
\* completion, bytes unchanged and readable, does no heavy work
C8_RerunDoesNoHeavyWork ==
    \A w \in Workers :
        (wk[w].obj \in wk[w].prior /\ Parses(wk[w].data)) => ~wk[w].heavy

\* C9: the gate answers from committed catalog rows alone: an invocation
\* that has not committed its primary upsert is invisible to the gate of
\* another, so two invocations on the same bytes can both pass as not known
C9_GateSeesOnlyCommittedRows ==
    \A w \in Workers : wk[w].dup = wk[w].knownAtGate

\* two invocations on the same bytes at two paths, both answered not known,
\* both extracted and both committed the full primary upsert
C9_Witness ==
    \E v \in Workers : \E w \in Workers :
        /\ wk[v].obj # wk[w].obj /\ wk[v].data = wk[w].data
        /\ wk[v].kind = wk[w].kind /\ wk[v].kind \in {"docx", "image", "pptx"}
        /\ wk[v].pc = "done" /\ wk[w].pc = "done"
        /\ ~wk[v].dup /\ ~wk[w].dup
        /\ ~wk[v].knownAtGate /\ ~wk[w].knownAtGate
        /\ wk[v].heavy /\ wk[w].heavy
        /\ wk[v].parsed /\ wk[w].parsed
        /\ wk[v].primCalls = 1 /\ wk[w].primCalls = 1

\* C10: two terminated invocations of one adapter on the same bytes at two
\* paths, however interleaved: at most one unstructured_documents row and at
\* most one unstructured_images row for the hash, and exactly one catalog row
\* for each of the two paths
C10_RaceEndState ==
    \A v \in Workers : \A w \in Workers :
        (/\ Terminated(wk[v]) /\ Terminated(wk[w])
         /\ wk[v].obj # wk[w].obj /\ wk[v].data = wk[w].data
         /\ wk[v].kind = wk[w].kind
         /\ wk[v].kind \in {"pdf", "docx", "pptx", "image"}
         /\ Parses(wk[w].data)
         /\ ~wk[v].failedCall /\ ~wk[w].failedCall) =>
            /\ Cardinality({d \in docs : d.content_hash = Hash(wk[w])}) <= 1
            /\ Cardinality({d \in images : d.content_hash = Hash(wk[w])}) <= 1
            /\ Cardinality(KeyRows(catalog, wk[v].obj)) = 1
            /\ Cardinality(KeyRows(catalog, wk[w].obj)) = 1

\* the tables the extractor returned to the invocation
ExtractedTables(r) == 1 .. r.ntab

\* C11: when the put or the load of one extracted table failed (and no catalog
\* upsert did), the invocation still stores, loads and catalogs every other
\* table, commits the primary upsert and ends normally
C11_TableFailureIsNotFatal ==
    \A w \in Workers :
        (/\ Terminated(wk[w])
         /\ wk[w].kind \in {"pdf", "docx", "pptx"}
         /\ Cardinality(wk[w].putFailed \cup wk[w].loadFailed) = 1
         /\ wk[w].catFailed = {} /\ ~wk[w].primFailed) =>
            /\ wk[w].pc = "done"
            /\ \A i \in ExtractedTables(wk[w]) \ (wk[w].putFailed \cup wk[w].loadFailed) :
                  i \in wk[w].persisted /\ i \in wk[w].cataloged
            /\ wk[w].primCalls = 1

\* C12: when the catalog upsert of an extracted table failed and nothing had
\* failed before it, every other table of the document is still stored,
\* loaded and cataloged, and the primary upsert commits (docx and pptx; the
\* pdf primary upsert is C5)
C12_TableCatalogFailureIsContained ==
    \A w \in Workers :
        (/\ Terminated(wk[w])
         /\ wk[w].kind \in {"docx", "pptx"}
         /\ wk[w].catFailed # {}
         /\ \A i \in wk[w].loadFailed : \E j \in wk[w].catFailed : j < i
         /\ wk[w].putFailed = {} /\ ~wk[w].primFailed) =>
            /\ \A i \in ExtractedTables(wk[w]) \ wk[w].catFailed :
                  i \in wk[w].persisted /\ i \in wk[w].cataloged
            /\ wk[w].primCalls = 1

\* C13: a step in which the load of a table fails changes no relational
\* table and no catalog row: the tables and rows committed before it, a table
\* of the same name included, are as they were
C13_FailedLoadRollsBackOnlyItself ==
    [][\A w \in Workers :
          wk'[w].loadFailed # wk[w].loadFailed =>
              tables' = tables /\ catalog' = catalog]_vars

\* the load of a table failed in an invocation that had loaded and cataloged
\* another table before, and the table of that name which an earlier
\* invocation had loaded is still there with its rows
C13_Witness ==
    \E w \in Workers : \E i \in wk[w].loadFailed :
        /\ wk[w].kind \in {"pdf", "docx", "pptx"}
        /\ i \notin wk[w].persisted
        /\ wk[w].persisted # {} /\ wk[w].cataloged # {}
        /\ sanitize_table_name(TableKey(wk[w].kind, wk[w].obj, i)) \in DOMAIN tables
        /\ tables[sanitize_table_name(TableKey(wk[w].kind, wk[w].obj, i))]
               = TableRows(wk[w].data, i)
        /\ \A j \in wk[w].persisted :
              /\ sanitize_table_name(TableKey(wk[w].kind, wk[w].obj, j)) \in DOMAIN tables
              /\ KeyRows(catalog, TableKey(wk[w].kind, wk[w].obj, j)) # {}

\* C14: a structured invocation whose bytes cannot be read raises, and has
\* issued no catalog upsert, no table load and no put; its path has no
\* catalog row
C14_UnreadableStructuredRaises ==
    \A w \in Workers :
        (/\ wk[w].kind = "structured" /\ ~Parses(wk[w].data)
         /\ wk[w].pc \notin {"idle", "extract"}) =>
            /\ wk[w].pc = "failed"
            /\ wk[w].primCalls = 0 /\ ~wk[w].primFailed
            /\ ~wk[w].wrote /\ wk[w].persisted = {} /\ wk[w].loadFailed = {}
            /\ KeyRows(catalog, wk[w].obj) = {}
            /\ sanitize_table_name(wk[w].obj) \notin DOMAIN tables
            /\ ParquetName(wk[w].obj) \notin DOMAIN store

\* an unreadable structured object has failed while a readable one went
\* through load, Parquet and upsert
C14_Witness ==
    \E v \in Workers : \E w \in Workers :
        /\ wk[w].kind = "structured" /\ ~Parses(wk[w].data) /\ wk[w].pc = "failed"
        /\ wk[w].heavy
        /\ wk[v].kind = "structured" /\ wk[v].pc = "done" /\ wk[v].primCalls = 1
        /\ ParquetName(wk[v].obj) \in DOMAIN store

\* C15: a legacy .doc, or an image whose OCR raised, with no store call
\* failing: the invocation ends normally with one committed upsert for its
\* path, text_extracted false, and no derived-table catalog rows
C15_DegradedExtractionStillCataloged ==
    \A w \in Workers :
        (/\ Terminated(wk[w]) /\ ~wk[w].failedCall
         /\ \/ wk[w].kind = "docx" /\ wk[w].obj[3] = "doc"
            \/ wk[w].ocrFailed) =>
            /\ wk[w].pc = "done"
            /\ wk[w].primCalls = 1
            /\ ~wk[w].primArgs.text_extracted
            /\ wk[w].cataloged = {}

\* C16: when the upsert for the primary object failed after the extraction,
\* the invocation returns normally, and what it persisted stays in place
C16_PrimaryUpsertFailureIsLogged ==
    \A w \in Workers :
        (wk[w].primFailed /\ wk[w].heavy) =>
            /\ wk[w].pc # "failed"
            /\ \A i \in wk[w].persisted \ {0} :
                  sanitize_table_name(TableKey(wk[w].kind, wk[w].obj, i)) \in DOMAIN tables
            /\ 0 \in wk[w].persisted => sanitize_table_name(wk[w].obj) \in DOMAIN tables

\* the catalog columns an upsert sets from its arguments (catalog_id,
\* created_at and last_modified are bookkeeping of the row)
ArgsOf(row) ==
    [object_name |-> row.object_name, object_size |-> row.object_size,
     file_format |-> row.file_format, row_count |-> row.row_count,
     text_extracted |-> row.text_extracted, content_hash |-> row.content_hash,
     uploaded_by |-> row.uploaded_by, metadata |-> row.metadata]
\* a side-table row without its serial id
DocOf(d) == [object_name |-> d.object_name, file_type |-> d.file_type,
             text_content |-> d.text_content, content_hash |-> d.content_hash]

\* the locals of an invocation at its primary upsert when nothing failed
CleanLocals(r) ==
    LET e == Extracted(r) IN
    [e EXCEPT !.count = IF e.kind = "docx" THEN SumRows(e.data, 1 .. e.ntab)
                        ELSE e.ntab]
\* what one uninterrupted, failure-free run of the adapter leaves behind
CleanCatalog(r) ==
    {TableArgs([CleanLocals(r) EXCEPT !.tidx = i]) : i \in 1 .. CleanLocals(r).ntab}
        \cup (IF MetadataBuilt(r) THEN {PrimaryArgs(CleanLocals(r))} ELSE {})
CleanTables(r) ==
    {<<sanitize_table_name(TableKey(r.kind, r.obj, i)), TableRows(r.data, i)>> :
        i \in 1 .. CleanLocals(r).ntab}
CleanDocs(r) ==
    IF CleanLocals(r).text THEN {DocOf(DocRow(r, 0))} ELSE {}

\* the catalog, the relational tables and the text side table are those of
\* one clean run of invocation w
EndsAsCleanRun(w) ==
    /\ {ArgsOf(row) : row \in catalog} = CleanCatalog(wk[w])
    /\ {<<n, tables[n]>> : n \in DOMAIN tables} = CleanTables(wk[w])
    /\ {DocOf(d) : d \in docs} = CleanDocs(wk[w])

\* C17: an invocation of the pdf, docx or pptx adapter that ran alone and
\* without failure ends as a clean run; and so does a failure-free
\* invocation on a path on which every other invocation was killed inside
\* its table loop, whatever those had persisted and cataloged
C17_RerunAfterInterruptionConverges ==
    \A w \in Workers :
        (/\ wk[w].kind \in {"pdf", "docx", "pptx"}
         /\ wk[w].pc = "done" /\ ~wk[w].failedCall /\ ~wk[w].dup
         /\ \A v \in Workers \ {w} :
               \/ wk[v].pc = "idle"
               \/ wk[v].pc = "crashed" /\ wk[v].obj = wk[w].obj) =>
            EndsAsCleanRun(w)

\* an invocation was killed after it had loaded and cataloged its first
\* table, and the re-run on the same object has finished
C17_Witness ==
    \E v \in Workers : \E w \in Workers :
        /\ wk[v].pc = "crashed" /\ wk[v].obj = wk[w].obj
        /\ wk[v].cataloged = {1} /\ wk[v].persisted = {1}
        /\ wk[v].primCalls = 0
        /\ wk[v].obj \notin wk[w].prior
        /\ wk[w].kind = "docx"
        /\ wk[w].pc = "done" /\ ~wk[w].failedCall
        /\ wk[w].cataloged = {1, 2} /\ wk[w].primCalls = 1
        /\ \E row \in KeyRows(catalog, TableKey("docx", wk[w].obj, 1)) :
              row.last_modified # NULL

\* the catalog rows of extracted tables
DerivedTableRows == {row \in catalog : row.object_name[1] = "processed/structured/tables"}

\* C18: a catalog row of an extracted table has file_format csv and a null
\* content_hash, its CSV object is in the object store, and the relational
\* table named by sanitize_table_name of its path exists
C18_DerivedRowImpliesObjectAndTable ==
    \A row \in DerivedTableRows :
        /\ row.file_format = "csv"
        /\ row.content_hash = NullHash
        /\ row.object_name \in DOMAIN store
        /\ sanitize_table_name(row.object_name) \in DOMAIN tables

\* one table of a document was cataloged and the load of another failed
C18_Witness ==
    \E w \in Workers :
        /\ wk[w].loadFailed # {} /\ wk[w].cataloged # {}
        /\ \A i \in wk[w].loadFailed :
              KeyRows(catalog, TableKey(wk[w].kind, wk[w].obj, i)) = {}
        /\ \E i \in wk[w].cataloged :
              KeyRows(catalog, TableKey(wk[w].kind, wk[w].obj, i)) \subseteq DerivedTableRows

\* C19: a table whose CSV put failed is, within that invocation, neither
\* loaded into a relational table (no load is even attempted) nor cataloged
C19_FailedPutLeavesNoRowNoTable ==
    \A w \in Workers : \A i \in wk[w].putFailed :
        /\ i \notin wk[w].persisted
        /\ i \notin wk[w].loadFailed
        /\ i \notin wk[w].cataloged
        /\ i \notin wk[w].catFailed

\* the put of a table's CSV failed, the invocation finished, and nothing
\* exists for that table while the other table went through
C19_Witness ==
    \E w \in Workers : \E i \in wk[w].putFailed :
        /\ wk[w].pc = "done"
        /\ wk[w].cataloged # {}
        /\ KeyRows(catalog, TableKey(wk[w].kind, wk[w].obj, i)) = {}
        /\ TableKey(wk[w].kind, wk[w].obj, i) \notin DOMAIN store
        /\ sanitize_table_name(TableKey(wk[w].kind, wk[w].obj, i)) \notin DOMAIN tables

\* C20: no step removes or rewrites an uploaded object: every raw path of
\* the object store is still there after the step, with the same bytes
C20_UploadedBytesUntouched ==
    [][\A p \in DOMAIN store :
          p \in RawPaths => (p \in DOMAIN store' /\ store'[p] = store[p])]_vars

\* one invocation failed, another wrote derived objects, and the object each
\* was asked to process still holds the bytes it fetched
C20_Witness ==
    \E v \in Workers : \E w \in Workers :
        /\ wk[v].pc = "failed"
        /\ wk[w].pc = "done" /\ wk[w].kind = "structured"
        /\ ParquetName(wk[w].obj) \in DOMAIN store
        /\ store[wk[w].obj] = wk[w].data
        /\ store[wk[v].obj] = wk[v].data

\* an invocation whose get_object raised: it was started and holds no bytes
FetchFailed(r) == r.pc \notin {"idle", "rejected"} /\ r.data = "none"
\* the stores and the catalog are the same before and after the step
NothingWritten ==
    /\ store' = store /\ tables' = tables /\ docs' = docs /\ images' = images
    /\ catalog' = catalog

\* C21: an invocation whose fetch of the primary object failed ends with the
\* failure propagated; the failing step and every later step leave the
\* object store, the relational tables, the side tables and the catalog to
\* the other invocations, and the invocation extracts nothing and makes no
\* catalog upsert
C21_FetchFailurePropagatesWithoutWrites ==
    [][\A w \in Workers :
          FetchFailed(wk'[w]) =>
              /\ wk'[w].pc = "fetch_failed"
              /\ ~wk'[w].heavy /\ ~wk'[w].wrote
              /\ wk'[w].primCalls = 0 /\ wk'[w].cataloged = {}
              /\ wk'[w].persisted = {}
              /\ wk[w] # wk'[w] => NothingWritten]_vars

\* one invocation failed on a key that is not in the bucket, another on a
\* key that is there while the object store could not be reached
C21_Witness ==
    \E v \in Workers : \E w \in Workers :
        /\ wk[v].pc = "fetch_failed" /\ wk[v].obj \notin DOMAIN store
        /\ wk[w].pc = "fetch_failed" /\ wk[w].obj \in DOMAIN store
        /\ faults = 1

\* the extensions run_pipeline_for_object dispatches on
SupportedExts == {"csv", "json", "parquet", "pdf", "doc", "docx",
                  "png", "jpg", "jpeg", "tiff", "ppt", "pptx"}

\* C22: an invocation on an object whose extension is not a supported one
\* is rejected by the dispatcher: no adapter runs, nothing is fetched or
\* extracted, and its step leaves the catalog and every store unchanged
C22_UnsupportedExtensionIsRejected ==
    [][\A w \in Workers :
          (wk'[w].pc # "idle" /\ wk'[w].obj[3] \notin SupportedExts) =>
              /\ wk'[w].pc = "rejected"
              /\ wk'[w].kind = "unsupported"
              /\ wk'[w].data = "none"
              /\ ~wk'[w].heavy /\ ~wk'[w].wrote
              /\ wk'[w].primCalls = 0 /\ wk'[w].cataloged = {}
              /\ wk[w] # wk'[w] => NothingWritten /\ faults' = faults]_vars

\* an uploaded .txt object was dispatched and rejected while the catalog
\* table did not exist yet, and it still does not exist
C22_Witness ==
    \E w \in Workers :
        /\ wk[w].pc = "rejected" /\ wk[w].obj \in DOMAIN store
        /\ wk[w].obj[3] = "txt"
        /\ catalogSchema = "absent" /\ catalog = {}

\* ---------------------------------------------------------- SpecTransform
\* the transforms of structured_pipeline: one call of one of them on an
\* argument
engineVars == <<catalogVars, storeVars, wk, runs, faults>>
\* every str of at most n characters of the alphabet
Strings(alphabet, n) == UNION {[1 .. k -> alphabet] : k \in 0 .. n}

\* the column name "Order #2023"
OrderName == <<"O", "r", "d", "e", "r", " ", "#", "2", "0", "2", "3">>
ColumnAlphabet == {"a", "B", "1", "_", " ", "#", CapitalIDot}
ColumnNames == Strings(ColumnAlphabet, MaxLen) \cup {OrderName}

\* an object path whose final segment is longer than an identifier may be
LongPath == <<"r", "a", "w", "/">> \o [i \in 1 .. MaxIdentifier + MaxLen |-> "a"]
               \o <<".", "c", "s", "v">>
PathAlphabet == {"a", "B", "1", "_", "-", ".", "/", CapitalIDot}
ObjectNames == Strings(PathAlphabet, MaxLen) \cup {LongPath}

InitTransform ==
    /\ catalogSchema = "absent"
    /\ catalog = {}
    /\ nextId = 1
    /\ clock = 1
    /\ born = {}
    /\ lastCall = NoCall
    /\ store = <<>>
    /\ tables = <<>>
    /\ docs = {}
    /\ images = {}
    /\ nextSideId = 1
    /\ wk = <<>>
    /\ runs = 0
    /\ faults = 0
    /\ calc = NoCalc

SanitizeColumnName ==
    /\ calc = NoCalc
    /\ \E col \in ColumnNames :
          calc' = [fn |-> "sanitize_column_name", arg |-> col,
                   res |-> sanitize_column_name(col)]
    /\ UNCHANGED engineVars

SanitizeTableName ==
    /\ calc = NoCalc
    /\ \E object_name \in ObjectNames :
          calc' = [fn |-> "sanitize_table_name", arg |-> object_name,
                   res |-> sanitize_table_name_str(object_name)]
    /\ UNCHANGED engineVars

\* the header cells a file may carry
HeaderCells == {<<"a">>, <<"A">>, <<"b">>, <<"a", "_", "1">>, <<"a", "_", "2">>}
Headers == UNION {[1 .. k -> HeaderCells] : k \in 1 .. MaxCols}

CleanDataframe ==
    /\ calc = NoCalc
    /\ \E header \in Headers :
          calc' = [fn |-> "clean_dataframe", arg |-> header,
                   res |-> CleanColumns(header)]
    /\ UNCHANGED engineVars

\* the lines of a text sample: delimiters only, or a line of one blank
SampleLines == Strings({",", ";"}, MaxLen) \cup {<<" ">>}
Samples == UNION {[1 .. k -> SampleLines] : k \in 1 .. MaxLines}
\* csv.Sniffer().sniff(sample, delimiters=',;\t|') returns one of its
\* delimiters or raises
SniffAnswers == {"error", ",", ";", "\t", "|"}

DetectDelimiter ==
    /\ calc = NoCalc
    /\ \E lines \in Samples, sniffed \in SniffAnswers :
          calc' = [fn |-> "detect_delimiter",
                   arg |-> [lines |-> lines, sniffed |-> sniffed],
                   res |-> detect_delimiter(lines, sniffed)]
    /\ UNCHANGED engineVars

\* the str cells of the columns: numbers around the 32-bit and 64-bit
\* limits, booleans, JSON texts, a date and other text
StrValues ==
    {<<"0">>, <<"1">>, <<"2">>, <<"3">>, <<"2", ".", "5">>, <<"1", ".", "0">>, <<"-", "1">>,
     Int32Max, Int32MinMag, <<"-">> \o Int32MinMag, <<"-">> \o Int32MinMag \o <<"0">>,
     Int64Max, Int64MinMag, UInt64Max, <<"1">> \o UInt64Max,
     <<"t", "r", "u", "e">>, <<"f", "a", "l", "s", "e">>, <<"T", "r", "u", "e">>,
     <<"{", "\"", "a", "\"", ":", "1", "}">>, <<" ", "[", "1", "]">>,
     <<"2", "0", "2", "4", "-", "0", "1", "-", "0", "5">>,
     <<"A", "l", "i", "c", "e">>, <<"x", "1">>}
ObjectCells == {StrCell(v) : v \in StrValues} \cup {NullCell, NestedCell}
NumericCells == {NumCell(<<"1", "0", ".", "0">>), NumCell(<<"2", "0", ".", "5">>),
                 NumCell(<<"3">>), NullCell}
\* five sampled cells, to meet the 80% threshold
FiveCells == [1 .. 5 -> {StrCell(<<"{", "}">>), StrCell(<<"x">>)}]
\* the columns ["1","2","3"] and ["1","2.5","3"]
ThreeIntegers == <<StrCell(<<"1">>), StrCell(<<"2">>), StrCell(<<"3">>)>>
ThreeNumbers == <<StrCell(<<"1">>), StrCell(<<"2", ".", "5">>), StrCell(<<"3">>)>>
Columns == UNION {[1 .. k -> ObjectCells] \cup [1 .. k -> NumericCells] : k \in 0 .. MaxCells}
              \cup FiveCells \cup {ThreeIntegers, ThreeNumbers}

InferPostgresType ==
    /\ calc = NoCalc
    /\ \E series \in Columns, cast \in Casts :
          calc' = [fn |-> "infer_postgres_type", arg |-> series,
                   res |-> infer_postgres_type(series, cast)]
    /\ UNCHANGED engineVars

\* what chardet can answer: an encoding or none, and a confidence
DetectedEncodings == {"shift_jis", "utf-8", "ascii", NoEncoding}
Confidences == {0, 50, 69, 70, 99, 100}

DetectEncoding ==
    /\ calc = NoCalc
    /\ \E encoding \in DetectedEncodings, confidence \in Confidences :
          calc' = [fn |-> "detect_encoding",
                   arg |-> [encoding |-> encoding, confidence |-> confidence],
                   res |-> detect_encoding(encoding, confidence)]
    /\ UNCHANGED engineVars

\* what decoding and the three read attempts can give under one codec
AttemptOutcomes == {<<>>, <<"error", "error", "error">>, <<"empty", "empty", "empty">>,
                    <<"error", "empty", "rows">>, <<"rows", "rows", "rows">>}
Codecs == {"shift_jis", "utf-8", "ascii", "latin-1", "cp1252"}
\* latin-1 decodes every byte string
ReadOutcomes == {o \in [Codecs -> AttemptOutcomes] : o["latin-1"] # <<>> /\ o["ascii"] = o["utf-8"]}
EncodingLists == {detect_encoding(e, c) : e \in DetectedEncodings, c \in Confidences}

ReadCsvFile ==
    /\ calc = NoCalc
    /\ \E encodings \in EncodingLists, outcome \in ReadOutcomes :
          calc' = [fn |-> "read_csv_file",
                   arg |-> [encodings |-> encodings, outcome |-> outcome],
                   res |-> TryEncodings(encodings, outcome, 1)]
    /\ UNCHANGED engineVars

\* the lines of a JSON text: blank, an object, a padded object, an array, a
\* number, or a line json.loads rejects
JsonLines == {<<" ">>, ObjectA, <<" ">> \o ObjectB, ArrayAB, <<"1">>, <<"{", "a">>}
JsonTexts == UNION {[1 .. k -> JsonLines] : k \in 1 .. MaxJsonLines}

ReadJsonFile ==
    /\ calc = NoCalc
    /\ \E lines \in JsonTexts, normalize \in Normalizations :
          calc' = [fn |-> "read_json_file", arg |-> lines,
                   res |-> read_json_file(lines, normalize)]
    /\ UNCHANGED engineVars

\* object names: tabular and other extensions in either case, several
\* dots, no dot, a trailing dot
FileNames == {<<"a", ".", "c", "s", "v">>,
              <<"a", ".", "C", "S", "V">>,
              <<"a", ".", "b", ".", "J", "s", "o", "n">>,
              <<"a", ".", "t", "s", "v">>,
              <<"a", ".", "t", "x", "t">>,
              <<"a", ".", "p", "q">>,
              <<"a", ".", "p", "a", "r", "q", "u", "e", "t">>,
              <<"a", ".", "p", "d", "f">>,
              <<"a", ".", "d", "a", "t">>,
              <<"a">>,
              <<"c", "s", "v">>,
              <<"j", "s", "o", "n", ".">>}

DetectFileType ==
    /\ calc = NoCalc
    /\ \E object_name \in FileNames, jsonPrefix \in BOOLEAN :
          calc' = [fn |-> "detect_file_type",
                   arg |-> [object_name |-> object_name, jsonPrefix |-> jsonPrefix],
                   res |-> detect_file_type(object_name, jsonPrefix)]
    /\ UNCHANGED engineVars

NextTransform ==
    \/ DetectFileType
    \/ ReadJsonFile
    \/ DetectEncoding
    \/ ReadCsvFile
    \/ SanitizeColumnName
    \/ SanitizeTableName
    \/ CleanDataframe
    \/ DetectDelimiter
    \/ InferPostgresType

SpecTransform == InitTransform /\ [][NextTransform]_vars

\* ----------------------------------------------- claims on SpecTransform
\* C25: sanitize_column_name maps "Order #2023" to order__2023, and applying
\* it to its own result gives that result back, for every column name
C25_SanitizeColumnNameIdempotent ==
    calc.fn = "sanitize_column_name" =>
        /\ calc.arg = OrderName =>
              calc.res = <<"o", "r", "d", "e", "r", "_", "_", "2", "0", "2", "3">>
        /\ sanitize_column_name(calc.res) = calc.res

\* C30: the table name of an object path is that of its final segment; it
\* starts with data_, holds word characters only and is at most 63
\* characters long
C30_TableNameIsAnIdentifier ==
    calc.fn = "sanitize_table_name" =>
        /\ calc.res = sanitize_table_name_str(AfterLast(calc.arg, "/"))
        /\ Len(calc.res) >= 5
        /\ SubSeq(calc.res, 1, 5) = <<"d", "a", "t", "a", "_">>
        /\ \A i \in DOMAIN calc.res : IsWord(calc.res[i])
        /\ Len(calc.res) <= MaxIdentifier

\* C29: after the cleaning pass the column names are pairwise distinct, for
\* every header: of the columns that sanitize to one name the first keeps
\* it and the k-th later one carries the suffix _k
C29_CleanedColumnNamesAreDistinct ==
    calc.fn = "clean_dataframe" =>
        /\ \A i \in DOMAIN calc.res : \A j \in DOMAIN calc.res :
              i # j => calc.res[i] # calc.res[j]
        /\ \A i \in DOMAIN calc.res :
              LET name == sanitize_column_name(calc.arg[i])
                  k == Cardinality({j \in 1 .. i - 1 :
                                      sanitize_column_name(calc.arg[j]) = name})
              IN  calc.res[i] = IF k = 0 THEN name ELSE Suffixed(name, k)

\* the counts of a candidate over the sampled non-blank lines
CalcCounts(delim) == DelimiterCounts(calc.arg.lines, delim)
\* the candidates that occur in the sample
Occurring == {d \in Range(Delimiters) : ~Skipped(CalcCounts(d))}

\* C26: when the sniff fails, the delimiter returned is a candidate of
\* highest score (comma when no candidate occurs); and when every sampled
\* line has the same, positive number of semicolons while the numbers of
\* commas differ from line to line, the delimiter returned is the semicolon
C26_FallbackPicksConsistentDelimiter ==
    (calc.fn = "detect_delimiter" /\ calc.arg.sniffed = "error") =>
        /\ Occurring = {} => calc.res = ","
        /\ Occurring # {} =>
              /\ calc.res \in Occurring
              /\ \A d \in Occurring :
                    ScoreBeatsOrTies(ScoreNum(CalcCounts(calc.res)),
                                     ScoreDen(CalcCounts(calc.res)),
                                     ScoreNum(CalcCounts(d)), ScoreDen(CalcCounts(d)))
        /\ (/\ \A i \in DOMAIN CalcCounts(";") :
                  CalcCounts(";")[i] = CalcCounts(";")[1] /\ CalcCounts(";")[i] > 0
            /\ \E i \in DOMAIN CalcCounts(",") : CalcCounts(",")[i] # CalcCounts(",")[1])
           => calc.res = ";"

\* a str cell that reads neither as JSON, nor as a number, a date or a boolean
Unparseable(c) ==
    /\ c.t = "str" /\ ~LooksLikeJson(c) /\ ~ParseNumber(c.v).ok
    /\ ~IsIsoDate(c.v) /\ lower(c.v) \notin BoolValues
\* the column holds str cells only, at least one
AllStr(series) == series # <<>> /\ \A i \in DOMAIN series : series[i].t = "str"
\* the type the examples of C24 give the column, naming the JSON type json
ExampleType(series, json) ==
    IF series = ThreeIntegers THEN "INTEGER"
    ELSE IF series = ThreeNumbers THEN "NUMERIC"
    ELSE IF series = <<StrCell(<<"t", "r", "u", "e">>), StrCell(<<"f", "a", "l", "s", "e">>)>>
         THEN "BOOLEAN"
    ELSE IF AllStr(series) /\ \A i \in DOMAIN series : Head(series[i].v) = "{" THEN json
    ELSE IF AllStr(series) /\ \A i \in DOMAIN series : Unparseable(series[i]) THEN "TEXT"
    ELSE calc.res

PriorityType(sample, nested, json, castsBack) ==
    IF sample = <<>> THEN "TEXT"
    ELSE IF nested THEN json
    ELSE IF JsonLike(sample) THEN json
    ELSE IF ToNumericSucceeds(sample)
            /\ \A i \in DOMAIN sample : ParseNumber(sample[i].v).frac = <<>>
            /\ castsBack
         THEN IF \A i \in DOMAIN sample :
                    IF ParseNumber(sample[i].v).neg
                    THEN MagLE(ParseNumber(sample[i].v).int, Int32MinMag)
                    ELSE MagLE(ParseNumber(sample[i].v).int, Int32Max)
              THEN "INTEGER" ELSE "BIGINT"
    ELSE IF ToNumericSucceeds(sample) THEN "NUMERIC"
    ELSE IF ToDatetimeSucceeds(sample) THEN "TIMESTAMP"
    ELSE IF BoolLike(sample) THEN "BOOLEAN"
    ELSE "TEXT"
\* every value of the sample lies in the signed 64-bit range
WithinInt64(sample) ==
    \A i \in DOMAIN sample :
        IF ParseNumber(sample[i].v).neg
        THEN MagLE(ParseNumber(sample[i].v).int, Int64MinMag)
        ELSE MagLE(ParseNumber(sample[i].v).int, Int64Max)

AllConvertToIntegral(series) ==
    /\ DropNa(series) # <<>>
    /\ ToNumericSucceeds(DropNa(series))
    /\ \A i \in DOMAIN DropNa(series) : ParseNumber(DropNa(series)[i].v).frac = <<>>
\* the minimum is >= -2147483648 and the maximum is <= 2147483647
MinMaxInInt32(series) ==
    \A i \in DOMAIN DropNa(series) :
        IF ParseNumber(DropNa(series)[i].v).neg
        THEN MagLE(ParseNumber(DropNa(series)[i].v).int, Int32MinMag)
        ELSE MagLE(ParseNumber(DropNa(series)[i].v).int, Int32Max)

\* C28 as stated: a column whose non-null values all convert to integral
\* numbers is INTEGER exactly when its minimum and maximum lie in the
\* signed 32-bit range, and BIGINT otherwise
C28_IntegerOrBigint ==
    (calc.fn = "infer_postgres_type" /\ AllConvertToIntegral(calc.arg)) =>
        calc.res = IF MinMaxInInt32(calc.arg) THEN "INTEGER" ELSE "BIGINT"

\* every value is written as an integer, or none is above 9223372036854775295
ExactlyCast(sample) ==
    \/ \A i \in DOMAIN sample : IsIntegerLiteral(sample[i])
    \/ \A i \in DOMAIN sample : MagLE(ParseNumber(sample[i].v).int, Int64FloatEdge)

\* C28 as amended: the same for values within the signed 64-bit range that
\* are all written as integers or none above 9223372036854775295; a column
\* of non-negative integers with one above 9223372036854775807 is NUMERIC
C28_IntegerOrBigintWithinInt64 ==
    (calc.fn = "infer_postgres_type" /\ AllConvertToIntegral(calc.arg)) =>
        /\ (WithinInt64(DropNa(calc.arg)) /\ ExactlyCast(DropNa(calc.arg))) =>
              calc.res = IF MinMaxInInt32(calc.arg) THEN "INTEGER" ELSE "BIGINT"
        /\ (/\ \A i \in DOMAIN DropNa(calc.arg) :
                   /\ IsIntegerLiteral(DropNa(calc.arg)[i])
                   /\ ~ParseNumber(DropNa(calc.arg)[i].v).neg
             /\ ~WithinInt64(DropNa(calc.arg))) =>
              calc.res = "NUMERIC"

\* the column ["2147483647", "2147483648"] was inferred BIGINT
C28_Witness ==
    /\ calc.fn = "infer_postgres_type"
    /\ calc.arg = <<StrCell(Int32Max), StrCell(Int32MinMag)>>
    /\ calc.res = "BIGINT"

\* ------------------------------------------------ the CSV example on Spec
\* C23: an invocation that processed a CSV object holding Name,Amount /
\* Alice,10 / Bob,20.5 to the end created a table with the columns name and
\* amount, amount being NUMERIC, loaded 2 rows into it, and made exactly
\* one catalog upsert, for the uploaded path, with row_count 2, file_format
\* csv and text_extracted false, which is the one catalog row of the path
C23_CsvExampleLoadedAndCataloged ==
    \A w \in Workers :
        (/\ wk[w].pc = "done" /\ wk[w].kind = "structured"
         /\ wk[w].obj[3] = "csv" /\ CsvLines(wk[w].data) = ExampleCsv) =>
            /\ Cardinality(FramesCleaned[wk[w].data]) = 1
            /\ [j \in DOMAIN wk[w].columnDefs |-> wk[w].columnDefs[j][1]]
                  = <<<<"n", "a", "m", "e">>, <<"a", "m", "o", "u", "n", "t">>>>
            /\ wk[w].columnDefs[2][2] = "NUMERIC"
            /\ sanitize_table_name(wk[w].obj) \in DOMAIN tables
            /\ tables[sanitize_table_name(wk[w].obj)] = 2
            /\ wk[w].primCalls = 1 /\ wk[w].cataloged = {}
            /\ wk[w].primArgs.object_name = wk[w].obj
            /\ wk[w].primArgs.row_count = 2
            /\ wk[w].primArgs.file_format = "csv"
            /\ wk[w].primArgs.text_extracted = FALSE
            /\ Cardinality(KeyRows(catalog, wk[w].obj)) = 1
            /\ \A row \in KeyRows(catalog, wk[w].obj) :
                  /\ row.row_count = 2 /\ row.file_format = "csv"
                  /\ row.text_extracted = FALSE

\* a CSV object holding the example was processed to the end
C23_Witness ==
    \E w \in Workers :
        /\ wk[w].pc = "done" /\ wk[w].kind = "structured"
        /\ wk[w].obj[3] = "csv" /\ CsvLines(wk[w].data) = ExampleCsv
        /\ wk[w].primCalls = 1
        /\ wk[w].columnDefs # <<>>

\* ------------------------------------------------- the encoding fallback
\* the codecs a list of encodings tries, in order, each once
CodecsTried(encodings) == Unique([i \in DOMAIN encodings |-> Codec(encodings[i])], {})
\* the read stopped at the first encoding of the list under which the bytes
\* decode and an attempt gives a non-empty table, and failed without one
StopsAtFirstReadable ==
    calc.fn = "read_csv_file" =>
        LET good == {i \in DOMAIN calc.arg.encodings :
                        \E k \in 1 .. 3 :
                            /\ k \in DOMAIN calc.arg.outcome[Codec(calc.arg.encodings[i])]
                            /\ calc.arg.outcome[Codec(calc.arg.encodings[i])][k] = "rows"}
        IN  IF good = {} THEN ~calc.res.ok
            ELSE /\ calc.res.ok
                 /\ \E i \in good : /\ \A j \in good : i <= j
                                    /\ calc.res.encoding = calc.arg.encodings[i]

\* C31: with a low detection confidence the encodings tried are, in this
\* order, the detected one, utf-8, latin-1 and cp1252; the read stops at the
\* first encoding under which the bytes decode and an attempt gives a
\* non-empty table
C31_FallbackOrderStartsWithDetected ==
    /\ (/\ calc.fn = "detect_encoding"
        /\ calc.arg.confidence < ConfidenceThreshold
        /\ calc.arg.encoding # NoEncoding) =>
            CodecsTried(calc.res)
                = CodecsTried(<<calc.arg.encoding, "utf-8", "latin-1", "cp1252">>)
    /\ StopsAtFirstReadable

\* ---------------------------------------------------------- empty reads
\* C32: a structured invocation whose object reads as a table with no rows
\* or no columns fails at the read: it loads no table, stores nothing,
\* issues no catalog upsert, and its path has no table and no catalog row
C32_EmptyReadIsAFailure ==
    \A w \in Workers :
        (/\ wk[w].kind = "structured" /\ wk[w].data \in AllContents
         /\ Parses(wk[w].data) /\ wk[w].pc \notin {"idle", "extract"}
         /\ \E df \in FramesRead[wk[w].data] : df.rows = 0 \/ df.columns = <<>>) =>
            /\ wk[w].pc = "failed"
            /\ wk[w].primCalls = 0 /\ ~wk[w].primFailed
            /\ ~wk[w].wrote /\ wk[w].persisted = {} /\ wk[w].loadFailed = {}
            /\ wk[w].columnDefs = <<>>
            /\ KeyRows(catalog, wk[w].obj) = {}
            /\ sanitize_table_name(wk[w].obj) \notin DOMAIN tables
            /\ ParquetName(wk[w].obj) \notin DOMAIN store

\* a CSV and a JSON object without records have both failed at the read
C32_Witness ==
    \E v \in Workers : \E w \in Workers :
        /\ wk[w].kind = "structured" /\ wk[w].obj[3] = "csv" /\ wk[w].data = "empty"
        /\ wk[w].pc = "failed" /\ wk[w].heavy
        /\ wk[v].kind = "structured" /\ wk[v].obj[3] = "json" /\ wk[v].data = "empty"
        /\ wk[v].pc = "failed" /\ wk[v].heavy

\* ------------------------------------------------ newline-delimited JSON
\* the values of the non-blank lines that parse, in input order
ParsedLines(lines) ==
    LET good == SelectSeq(lines, LAMBDA l : strip(l, Whitespace) # <<>> /\ json_loads(l).ok)
    IN  [i \in DOMAIN good |-> strip(good[i], Whitespace)]

\* C33 as stated: the table read has exactly one row per non-blank line that
\* parses as a JSON value, in input order; a line that fails to parse is
\* skipped; the read fails exactly when no line parses
C33_OneRowPerParsedLine ==
    calc.fn = "read_json_file" =>
        IF ParsedLines(calc.arg) = <<>> THEN ~calc.res.ok
        ELSE calc.res.ok /\ calc.res.rows = ParsedLines(calc.arg)

\* C33 as amended: the same for an input whose lines that parse are all
\* JSON objects
C33_OneRowPerObjectLine ==
    (/\ calc.fn = "read_json_file"
     /\ \A i \in DOMAIN calc.arg :
           json_loads(calc.arg[i]).ok => json_loads(calc.arg[i]).type = "dict") =>
        IF ParsedLines(calc.arg) = <<>> THEN ~calc.res.ok
        ELSE calc.res.ok /\ calc.res.rows = ParsedLines(calc.arg)

\* an object, a rejected line and another object were read as two rows
C33_Witness ==
    /\ calc.fn = "read_json_file"
    /\ calc.arg = <<ObjectA, <<"{", "a">>, <<" ">> \o ObjectB>>
    /\ calc.res = [ok |-> TRUE, rows |-> <<ObjectA, ObjectB>>]

\* ------------------------------------------------------ format detection
\* the lower-cased last dot-segment of a name
LastDotSegment(object_name) == lower(AfterLast(object_name, "."))

\* C34: the format is decided by the lower-cased last dot-segment of the
\* name; only when that is no tabular extension is a prefix of the bytes
\* parsed as JSON, giving json when it parses and csv otherwise; and the
\* detector takes an extension for tabular exactly when the dispatcher
\* hands it to the structured adapter
C34_DetectorAndDispatcherAgree ==
    calc.fn = "detect_file_type" =>
        LET seg == LastDotSegment(calc.arg.object_name)
            tabular == {ExtText[e] : e \in {"csv", "tsv", "txt", "json", "parquet", "pq"}}
        IN  /\ seg \in {ExtText["csv"], ExtText["tsv"], ExtText["txt"]} => calc.res.type = "csv"
            /\ seg = ExtText["json"] => calc.res.type = "json"
            /\ seg \in {ExtText["parquet"], ExtText["pq"]} => calc.res.type = "parquet"
            /\ seg \notin tabular =>
                  calc.res.type = IF calc.arg.jsonPrefix THEN "json" ELSE "csv"
            /\ calc.res.byExtension
                  <=> AdapterOf(DispatchedExt(calc.arg.object_name)) = "structured"

\* ----------------------------------------------- reprocessing a known path
\* the catalog row of the invocation's own path carries the hash of its bytes
OwnRowKnown(r) ==
    \E row \in KeyRows(catalog, r.obj) : row.content_hash = calculate_file_hash(r.data)

\* C35: when the catalog row of the path itself carries the hash of the
\* bytes, the gate of a pdf, docx, pptx or image invocation takes the
\* duplicate branch, and the stub upsert, when it commits, leaves that row
\* with row_count 0, text_extracted false and empty metadata, and with the
\* content_hash, catalog_id and created_at it had
C35_ReprocessingResetsOwnRow ==
    [][\A w \in Workers :
          /\ (/\ wk[w].pc = "gate" /\ wk'[w].pc \notin {"gate", "idle"}
              /\ GateQueryRuns(wk[w]) /\ OwnRowKnown(wk[w])) =>
                 wk'[w].pc = "stub"
          /\ (/\ wk[w].pc = "stub" /\ wk'[w].pc = "done"
              /\ wk'[w].primCalls = wk[w].primCalls + 1
              /\ OwnRowKnown(wk[w])) =>
                 \E old \in KeyRows(catalog, wk[w].obj) :
                    \E new \in KeyRows(catalog', wk[w].obj) :
                       /\ KeyRows(catalog', wk[w].obj) = {new}
                       /\ new.row_count = 0
                       /\ new.text_extracted = FALSE
                       /\ new.metadata = "{}"
                       /\ new.content_hash = old.content_hash
                       /\ new.catalog_id = old.catalog_id
                       /\ new.created_at = old.created_at]_vars

\* a docx or image path that a full run had cataloged with its text was
\* processed again and its row reads as a stub
C35_Witness ==
    \E w \in Workers :
        /\ wk[w].pc = "done" /\ wk[w].dup /\ wk[w].kind \in {"docx", "image"}
        /\ wk[w].obj \in wk[w].prior /\ wk[w].twinAtStart = {}
        /\ wk[w].primCalls = 1
        /\ \E v \in Workers : /\ wk[v].obj = wk[w].obj /\ wk[v].pc = "done"
                              /\ wk[v].primCalls = 1 /\ wk[v].primArgs.text_extracted
        /\ \E row \in KeyRows(catalog, wk[w].obj) :
              /\ row.row_count = 0 /\ ~row.text_extracted /\ row.metadata = "{}"
              /\ row.content_hash = calculate_file_hash(wk[w].data)

DuplicateStep(w) ==
    /\ wk'[w] # wk[w]
    /\ \/ wk[w].pc = "gate" /\ wk'[w].pc = "stub"
       \/ wk[w].pc = "stub"
\* the catalog rows of every path but p
RowsOfOthers(cat, p) == {row \in cat : row.object_name # p}

\* C38: processing a gate-reported duplicate changes nothing but the catalog
\* row of the path being processed: the rows of every other path (that of
\* the first path with these bytes among them), every relational table,
\* every side-table row and every stored object stay as they were
C38_DuplicateTouchesOwnRowOnly ==
    [][\A w \in Workers :
          DuplicateStep(w) =>
             /\ RowsOfOthers(catalog', wk[w].obj) = RowsOfOthers(catalog, wk[w].obj)
             /\ tables' = tables
             /\ docs' = docs
             /\ images' = images
             /\ store' = store]_vars

\* a duplicate was stubbed while the first path's row, its tables, its
\* side-table row and its text object were there
C38_Witness ==
    \E w \in Workers :
        /\ wk[w].pc = "done" /\ wk[w].dup /\ wk[w].primCalls = 1
        /\ \E row \in RowsOfOthers(catalog, wk[w].obj) :
              row.content_hash = calculate_file_hash(wk[w].data)
        /\ DOMAIN tables # {}
        /\ docs # {}
        /\ KeyRows(catalog, wk[w].obj) # {}

\* ------------------------------------------------ a gate query that fails
\* C39: when the gate's query fails, the pdf and pptx adapters take the
\* content as not known and go on to the extraction; the docx and image
\* adapters stop there, and a stopped invocation writes nothing: the catalog
\* is unchanged by the step and the invocation never moves again
C39_GateQueryFailure ==
    [][\A w \in Workers :
          /\ (wk[w].pc = "gate" /\ ~GateQueryRuns(wk[w]) /\ wk'[w] # wk[w]) =>
                /\ catalog' = catalog
                /\ IF wk[w].kind \in {"pdf", "pptx"}
                   THEN wk'[w].pc = "extract" /\ ~wk'[w].dup
                   ELSE wk'[w].pc = "failed" /\ wk'[w].primCalls = 0
          /\ (wk[w].pc = "extract" /\ wk[w].kind \in {"pdf", "pptx"} /\ wk'[w] # wk[w]) =>
                wk'[w].heavy
          /\ wk[w].pc = "failed" => wk'[w] = wk[w]]_vars

\* each of the four adapters met a failing gate query: a pdf or pptx
\* invocation went on to extract, a docx or image invocation stopped
C39_Witness ==
    /\ catalogSchema = "absent"
    /\ \E w \in Workers :
          /\ wk[w].kind \in {"pdf", "pptx"} /\ wk[w].heavy /\ ~wk[w].dup
    /\ \E w \in Workers :
          /\ wk[w].kind \in {"docx", "image"} /\ wk[w].pc = "failed" /\ ~wk[w].heavy
          /\ KeyRows(catalog, wk[w].obj) = {}

\* ------------------------------------------ row_count and the table's rows
\* a structured upload or an extracted table
IsTabularArtifact(p) ==
    \/ p[1] = "raw" /\ AdapterOf(p[3]) = "structured"
    \/ p[1] = "processed/structured/tables"
\* no invocation is between two of its steps
Quiescent ==
    \A w \in Workers :
        wk[w].pc \in {"idle", "done", "failed", "crashed", "rejected", "fetch_failed"}

\* C37: once the invocations have ended, every catalog row of a tabular
\* artifact has the row_count of the relational table derived from its
\* path, which exists; also when two cataloged paths derive the same table
C37_RowCountIsTheTablesRowCount ==
    Quiescent =>
        \A row \in catalog :
            IsTabularArtifact(row.object_name) =>
                /\ sanitize_table_name(row.object_name) \in DOMAIN tables
                /\ tables[sanitize_table_name(row.object_name)] = row.row_count

====
